---------------------------- MODULE Spec2Model ----------------------------
(***************************************************************************)
(* State-machine model of the NOMAD "controle financeiro" backend          *)
(* (backend/main.py, backend/crud.py, backend/models.py,                    *)
(* backend/schemas.py, backend/security.py, backend/database.py).           *)
(*                                                                         *)
(* The store is three tables (usuarios, categorias, transacoes) behind one  *)
(* of the two dialects database.py can select.  Every endpoint of main.py   *)
(* is one action; the crud.py function it calls is an operator that returns *)
(* the table it would commit together with the store's verdict on the       *)
(* constraints models.py declares.                                          *)
(*                                                                         *)
(* Representation                                                           *)
(*   - a datetime is [dia, seg, micro]: day number, second of the day,      *)
(*     microsecond of the second; a date is the day number;                 *)
(*   - a Decimal amount is an integer number of thousandths (1000 = 1.00),  *)
(*     so that a payload may carry more than the two decimals the column    *)
(*     Numeric(10, 2) keeps;                                                *)
(*   - SQL NULL / Python None is the string "NULL" for text columns and 0   *)
(*     for integer columns (ids start at 1).                                *)
(*                                                                         *)
(* Specifications (each is Init with the requests of one scenario)          *)
(*   Spec           transactions and their owners (two accounts)            *)
(*   SpecCategoria  deleting categories that are, or are not, in use        *)
(*   SpecParcial    sparse updates of a profile and of categories           *)
(*   SpecDashboard  the dashboard summary                                   *)
(*   SpecTendencia  the end of the range and the trend series               *)
(*   SpecCorpo      the body of a transaction update, whole and in part     *)
(*   SpecSenha      logins and password changes                             *)
(*   SpecRegistro   registrations that interleave                           *)
(*   SpecToken      bearer tokens that expire, lose their user or are forged*)
(*   SpecAcesso     every endpoint, with and without credentials            *)
(*   SpecInvertido  ranges whose start is after their end                   *)
(*   SpecUnicidade  names and emails that collide                           *)
(*   SpecTipo       category types other than Receita and Gasto             *)
(*   SpecSessao     the database session of a request and of the task       *)
(*   SpecConcorrente  updates of one transaction that overlap               *)
(*   SpecAlheio     two accounts, each acting on its own data               *)
(*   SpecAcordo     the summary and the trend series over one range         *)
(***************************************************************************)
EXTENDS Integers, Sequences, FiniteSets, TLC

VARIABLES
    dialect,     \* db.bind.dialect.name: "postgresql" or "sqlite"
    usuarios,    \* table usuarios: a set of rows
    categorias,  \* table categorias: a set of rows
    transacoes,  \* table transacoes: a set of rows
    seq,         \* last value of each table's id sequence (postgresql only)
    tokens,      \* bearer tokens handed out by POST /token, held by clients
    resp,        \* the response to the last request, with the request echoed
    pendentes,   \* requests in flight between their first query and their commit
    relogio,     \* the server's clock, in minutes
    sessoes      \* the SessionLocal() sessions of requests and tasks in flight

vars == <<dialect, usuarios, categorias, transacoes, seq, tokens, resp,
          pendentes, relogio, sessoes>>

store == <<usuarios, categorias, transacoes>>

(***************************************************************************)
(* Bounds of the model.                                                     *)
(***************************************************************************)
MaxUsuarios == 2
MaxCategorias == 2
MaxTransacoes == 2

NULL == "NULL"

(***************************************************************************)
(* Time.                                                                    *)
(***************************************************************************)
SegundosPorDia == 86400
SegundosPorHora == 3600
MicrosPorSegundo == 1000000

DateTime(d, s, u) == [dia |-> d, seg |-> s, micro |-> u]

\* A date compared with a DateTime column is the midnight that starts it.
Meianoite(d) == DateTime(d, 0, 0)

\* The last representable instant of a day: 23:59:59.999999.
UltimoInstante(d) == DateTime(d, SegundosPorDia - 1, MicrosPorSegundo - 1)

Antes(a, b) ==
    \/ a.dia < b.dia
    \/ a.dia = b.dia /\ a.seg < b.seg
    \/ a.dia = b.dia /\ a.seg = b.seg /\ a.micro < b.micro

\* date + timedelta(days=1)
MaisUmDia(d) == d + 1

(***************************************************************************)
(* Column types (models.py).                                                *)
(***************************************************************************)
\* Rounding to two decimals, half away from zero (amounts are thousandths).
Quantize(v) ==
    IF v >= 0 THEN ((v + 5) \div 10) * 10 ELSE 0 - (((0 - v) + 5) \div 10) * 10

\* Numeric(10, 2) on the way in.  postgresql keeps a NUMERIC(10,2) value, so
\* the payload is rounded when it is written; sqlite has no native decimal,
\* the value is bound as a float and stored as it came.
BindValor(d, v) == IF d = "postgresql" THEN Quantize(v) ELSE v

\* Numeric(10, 2) on the way out.  postgresql hands the stored decimal back;
\* on sqlite the float that comes back (a column or a SUM over it) is
\* formatted with two decimals.
ResultValor(d, x) == IF d = "sqlite" THEN Quantize(x) ELSE x

\* security.get_hash_da_senha / security.verificar_senha
get_hash_da_senha(senha) == <<"argon2", senha>>

verificar_senha(senha_plana, senha_hashed) == senha_hashed = <<"argon2", senha_plana>>

(***************************************************************************)
(* Sums over sets of rows.                                                  *)
(***************************************************************************)
RECURSIVE SomaValor(_)
SomaValor(linhas) ==
    IF linhas = {} THEN 0
    ELSE LET l == CHOOSE x \in linhas : TRUE
         IN  l.valor + SomaValor(linhas \ {l})

MaiorId(tab) ==
    IF tab = {} THEN 0
    ELSE CHOOSE m \in {r.id : r \in tab} : \A r \in tab : r.id <= m

\* The id a new row gets: sqlite's INTEGER PRIMARY KEY takes the largest
\* rowid in the table plus one (an id freed by deleting the last row is
\* given again); postgresql draws the next value of the column's sequence.
ProximoId(d, tab, s) == IF d = "sqlite" THEN MaiorId(tab) + 1 ELSE s + 1

\* The sequence after an INSERT was attempted (a value drawn is not given
\* back when the statement fails).
ProximaSeq(d, s) == IF d = "sqlite" THEN s ELSE s + 1

\* usuarios without unique=True on email.
UsuariosOkSemEmailUnico(tab) ==
    /\ \A u \in tab : u.nome_usuario # NULL
    /\ \A u, v \in tab : u.id # v.id => u.nome_usuario # v.nome_usuario

(***************************************************************************)
(* The constraints the store enforces on commit (models.py).                *)
(***************************************************************************)
\* usuarios: nome_usuario unique and not null, email unique among the rows
\* that have one (senha_hash is not null too, and no request can null it).
UsuariosOk(tab) ==
    /\ \A u \in tab : u.nome_usuario # NULL
    /\ \A u, v \in tab : u.id # v.id => u.nome_usuario # v.nome_usuario
    /\ \A u, v \in tab : (u.id # v.id /\ u.email # NULL) => u.email # v.email

\* categorias: nome unique and not null, tipo and cor not null.
CategoriasOk(tab) ==
    /\ \A c \in tab : c.nome # NULL /\ c.tipo # NULL /\ c.cor # NULL
    /\ \A c, e \in tab : c.id # e.id => c.nome # e.nome

\* transacoes: the two foreign keys are not null; the references themselves
\* are checked by postgresql only (database.py opens sqlite without turning
\* its foreign-key enforcement on).
TransacoesOk(d, tabT, tabC, tabU) ==
    /\ \A t \in tabT : t.categoria_id # 0 /\ t.usuario_id # 0
    /\ d = "postgresql" =>
         \A t \in tabT : /\ \E c \in tabC : c.id = t.categoria_id
                         /\ \E u \in tabU : u.id = t.usuario_id

(***************************************************************************)
(* Reading the store (crud.py).                                             *)
(***************************************************************************)
\* What .first() gives when the query has no row.
Nenhum == [id |-> 0]

\* crud.get_usuario_por_nome
get_usuario_por_nome(nome_usuario) ==
    IF \E u \in usuarios : u.nome_usuario = nome_usuario
    THEN CHOOSE u \in usuarios : u.nome_usuario = nome_usuario
    ELSE Nenhum

\* settings.SECRET_KEY and settings.ACCESS_TOKEN_EXPIRE_MINUTES
SECRET_KEY == "SECRET_KEY"

ACCESS_TOKEN_EXPIRE_MINUTES == 30

\* What a request carries as its credentials: esquema is the scheme of the
\* Authorization header (NULL when the header is absent), jwt tells whether
\* the text after it decodes as a JWT, assinatura is the key that signed it,
\* sub and exp are its claims (sub NULL when the claim is absent); dono
\* records which account presented its password to obtain it.
\* security.criar_token_de_acesso
criar_token_de_acesso(usuario, expires_delta) ==
    [esquema |-> "Bearer", jwt |-> TRUE, assinatura |-> SECRET_KEY,
     sub |-> usuario.nome_usuario, exp |-> relogio + expires_delta,
     dono |-> usuario.id]

\* jwt.decode with options={"verify_exp": False}: the expiry is not looked at.
verificar_token_de_acesso_sem_exp(token) ==
    IF ~token.jwt \/ token.assinatura # SECRET_KEY
    THEN [exc |-> "credentials_exception", nome_usuario |-> NULL]
    ELSE IF token.sub = NULL
    THEN [exc |-> "credentials_exception", nome_usuario |-> NULL]
    ELSE [exc |-> "", nome_usuario |-> token.sub]

\* security.verificar_token_de_acesso: the TokenData, or credentials_exception
\* for a JWTError (not a JWT, another signature, exp in the past) and for a
\* payload without "sub".
verificar_token_de_acesso(token) ==
    IF ~token.jwt \/ token.assinatura # SECRET_KEY \/ token.exp < relogio
    THEN [exc |-> "credentials_exception", nome_usuario |-> NULL]
    ELSE IF token.sub = NULL
    THEN [exc |-> "credentials_exception", nome_usuario |-> NULL]
    ELSE [exc |-> "", nome_usuario |-> token.sub]

\* main.get_usuario_atual (after oauth2_scheme): the user the token names,
\* Nenhum when the dependency raises instead.
get_usuario_atual(token) ==
    LET token_data == verificar_token_de_acesso(token)
    IN  IF token.esquema # "Bearer" THEN Nenhum
        ELSE IF token_data.exc # "" THEN Nenhum
        ELSE get_usuario_por_nome(token_data.nome_usuario)

\* All the ways of listing the rows of S one after the other.
Enumeracoes(S) ==
    {f \in [1..Cardinality(S) -> S] : \A i, j \in DOMAIN f : i # j => f[i] # f[j]}

Min(a, b) == IF a < b THEN a ELSE b

\* The filter with data_fim itself as the upper bound: Transacao.data <= data_fim.
NoPeriodoAteDataFim(t, data_inicio, data_fim) ==
    /\ ~Antes(t.data, Meianoite(data_inicio))
    /\ ~Antes(Meianoite(data_fim), t.data)

\* The filter with the two dates put in order first, as BETWEEN SYMMETRIC does.
NoPeriodoEmQualquerOrdem(t, data_inicio, data_fim) ==
    LET primeiro == Min(data_inicio, data_fim)
        ultimo == IF data_inicio < data_fim THEN data_fim ELSE data_inicio
    IN  /\ ~Antes(t.data, Meianoite(primeiro))
        /\ Antes(t.data, Meianoite(MaisUmDia(ultimo)))

\* Transacao.data >= data_inicio AND Transacao.data < data_fim + 1 day
NoPeriodo(t, data_inicio, data_fim) ==
    /\ ~Antes(t.data, Meianoite(data_inicio))
    /\ Antes(t.data, Meianoite(MaisUmDia(data_fim)))

\* A row of transacoes as the ORM hands it out, with the category the
\* joinedload (a LEFT OUTER JOIN) found for it.
Carregada(t) ==
    [id |-> t.id, usuario_id |-> t.usuario_id, descricao |-> t.descricao,
     valor |-> ResultValor(dialect, t.valor), categoria_id |-> t.categoria_id,
     data |-> t.data, observacoes |-> t.observacoes,
     categoria |-> IF \E c \in categorias : c.id = t.categoria_id
                   THEN CHOOSE c \in categorias : c.id = t.categoria_id
                   ELSE Nenhum]

\* ORDER BY data DESC: every order the store may return (ties are free).
OrdemDataDesc(linhas) ==
    {f \in Enumeracoes(linhas) :
        \A i, j \in DOMAIN f : i < j => ~Antes(f[i].data, f[j].data)}

\* crud.listar_transacoes: the possible results.
listar_transacoes(usuario_id, skip, limit) ==
    LET linhas == {Carregada(t) : t \in {x \in transacoes : x.usuario_id = usuario_id}}
    IN  {SubSeq(f, skip + 1, Min(skip + limit, Len(f))) : f \in OrdemDataDesc(linhas)}

\* crud.listar_transacoes_por_periodo: the possible results.
listar_transacoes_por_periodo(usuario_id, data_inicio, data_fim) ==
    LET linhas == {Carregada(t) : t \in {x \in transacoes :
                       /\ x.usuario_id = usuario_id
                       /\ NoPeriodo(x, data_inicio, data_fim)}}
    IN  OrdemDataDesc(linhas)

(***************************************************************************)
(* crud.get_dashboard_data                                                  *)
(***************************************************************************)
\* Transacao JOIN Categoria, filtered by user, category type and period.
LinhasDoTipo(usuario_id, tipo, data_inicio, data_fim) ==
    {p \in transacoes \X categorias :
        /\ p[1].categoria_id = p[2].id
        /\ p[1].usuario_id = usuario_id
        /\ p[2].tipo = tipo
        /\ NoPeriodo(p[1], data_inicio, data_fim)}

\* func.sum(Transacao.valor) ... .scalar() or decimal.Decimal(0)
TotalDoTipo(usuario_id, tipo, data_inicio, data_fim) ==
    LET linhas == LinhasDoTipo(usuario_id, tipo, data_inicio, data_fim)
    IN  IF linhas = {} THEN 0
        ELSE ResultValor(dialect, SomaValor({p[1] : p \in linhas}))

\* GROUP BY Categoria.nome, Categoria.cor with SUM(valor) and COUNT(id).
GruposPorCategoria(usuario_id, tipo, data_inicio, data_fim) ==
    LET linhas == LinhasDoTipo(usuario_id, tipo, data_inicio, data_fim)
        chaves == {<<p[2].nome, p[2].cor>> : p \in linhas}
        doGrupo(k) == {p[1] : p \in {q \in linhas : <<q[2].nome, q[2].cor>> = k}}
    IN  {[nome_categoria |-> k[1], cor |-> k[2],
          soma |-> SomaValor(doGrupo(k)),
          total_compras |-> Cardinality(doGrupo(k))] : k \in chaves}

\* ORDER BY SUM(valor) DESC, then one schemas.CategoriaDetalhada per row.
DetalhadasPorCategoria(usuario_id, tipo, data_inicio, data_fim) ==
    LET grupos == GruposPorCategoria(usuario_id, tipo, data_inicio, data_fim)
        ordens == {f \in Enumeracoes(grupos) :
                      \A i, j \in DOMAIN f : i < j => f[i].soma >= f[j].soma}
    IN  {[i \in DOMAIN f |->
            [nome_categoria |-> f[i].nome_categoria, cor |-> f[i].cor,
             valor_total |-> ResultValor(dialect, f[i].soma),
             total_compras |-> f[i].total_compras]] : f \in ordens}

\* The possible schemas.DashboardData results.
get_dashboard_data(usuario_id, data_inicio, data_fim) ==
    LET total_receitas == TotalDoTipo(usuario_id, "Receita", data_inicio, data_fim)
        total_gastos == TotalDoTipo(usuario_id, "Gasto", data_inicio, data_fim)
    IN  {[total_receitas |-> total_receitas,
          total_gastos |-> total_gastos,
          lucro_liquido |-> total_receitas - total_gastos,
          gastos_por_categoria |-> g,
          receitas_por_categoria |-> r] :
            g \in DetalhadasPorCategoria(usuario_id, "Gasto", data_inicio, data_fim),
            r \in DetalhadasPorCategoria(usuario_id, "Receita", data_inicio, data_fim)}

(***************************************************************************)
(* crud.get_dados_de_tendencia                                              *)
(***************************************************************************)
\* A bucket key is the text the store formats; its shape is kept with it.
\* postgresql: to_char(data, 'YYYY-MM-DD HH24:00:00')
to_char(data) ==
    [formato |-> "YYYY-MM-DD HH:MI:SS", dia |-> data.dia,
     hora |-> data.seg \div SegundosPorHora, minuto |-> 0, segundo |-> 0]

\* strftime('%Y-%m-%d %H:%M:%S', data): the minutes and seconds kept.
strftime_HMS(data) ==
    [formato |-> "YYYY-MM-DD HH:MI:SS", dia |-> data.dia,
     hora |-> data.seg \div SegundosPorHora,
     minuto |-> (data.seg % SegundosPorHora) \div 60, segundo |-> data.seg % 60]

\* sqlite: strftime('%Y-%m-%d %H:00:00', data)
strftime(data) ==
    [formato |-> "YYYY-MM-DD HH:MI:SS", dia |-> data.dia,
     hora |-> data.seg \div SegundosPorHora, minuto |-> 0, segundo |-> 0]

\* func.date(data), in both dialects
date(data) == [formato |-> "YYYY-MM-DD", dia |-> data.dia]

agrupador_de_data(filtro, data) ==
    IF filtro = "daily"
    THEN IF dialect = "postgresql" THEN to_char(data) ELSE strftime(data)
    ELSE date(data)

\* The order of two keys of the same shape, which is the order of the texts.
ChaveMenor(a, b) ==
    \/ a.dia < b.dia
    \/ a.dia = b.dia /\ a.formato = "YYYY-MM-DD HH:MI:SS" /\ a.hora < b.hora

\* The grouped query without its filter on Categoria.tipo.
PontosDeTodosOsTipos(usuario_id, tipo, data_inicio, data_fim, filtro) ==
    LET linhas == LinhasDoTipo(usuario_id, "Receita", data_inicio, data_fim)
                  \cup LinhasDoTipo(usuario_id, "Gasto", data_inicio, data_fim)
        chaves == {agrupador_de_data(filtro, p[1].data) : p \in linhas}
        doGrupo(k) == {p[1] : p \in {q \in linhas :
                                       agrupador_de_data(filtro, q[1].data) = k}}
        grupos == {[data |-> k, soma |-> SomaValor(doGrupo(k))] : k \in chaves}
        f == CHOOSE g \in Enumeracoes(grupos) :
                 \A i, j \in DOMAIN g : i < j => ChaveMenor(g[i].data, g[j].data)
    IN  [i \in DOMAIN f |->
            [data |-> f[i].data, valor |-> ResultValor(dialect, f[i].soma)]]

\* GROUP BY agrupador_de_data with SUM(valor), ORDER BY ordenador_de_data,
\* then one schemas.PontoDeTendencia per row.
PontosDoTipo(usuario_id, tipo, data_inicio, data_fim, filtro) ==
    LET linhas == LinhasDoTipo(usuario_id, tipo, data_inicio, data_fim)
        chaves == {agrupador_de_data(filtro, p[1].data) : p \in linhas}
        doGrupo(k) == {p[1] : p \in {q \in linhas :
                                       agrupador_de_data(filtro, q[1].data) = k}}
        grupos == {[data |-> k, soma |-> SomaValor(doGrupo(k))] : k \in chaves}
        f == CHOOSE g \in Enumeracoes(grupos) :
                 \A i, j \in DOMAIN g : i < j => ChaveMenor(g[i].data, g[j].data)
    IN  [i \in DOMAIN f |->
            [data |-> f[i].data, valor |-> ResultValor(dialect, f[i].soma)]]

\* schemas.DadosDeTendencia
get_dados_de_tendencia(usuario_id, data_inicio, data_fim, filtro) ==
    [receitas |-> PontosDoTipo(usuario_id, "Receita", data_inicio, data_fim, filtro),
     despesas |-> PontosDoTipo(usuario_id, "Gasto", data_inicio, data_fim, filtro)]

(***************************************************************************)
(* Writing the store (crud.py).  Each operator gives the table(s) the       *)
(* session would commit, the store's verdict (exc) and the value returned.  *)
(***************************************************************************)
\* crud.criar_usuario; agora is what datetime.utcnow gives for criado_em.
criar_usuario(nome_usuario, senha, agora) ==
    LET db_usuario ==
            [id |-> ProximoId(dialect, usuarios, seq.usuarios),
             nome_usuario |-> nome_usuario,
             senha_hash |-> get_hash_da_senha(senha),
             nome_completo |-> NULL, email |-> NULL, data_nascimento |-> 0,
             avatar_url |-> NULL, criado_em |-> agora]
        tab == usuarios \cup {db_usuario}
    IN  [exc |-> IF UsuariosOk(tab) THEN "" ELSE "IntegrityError",
         usuarios |-> tab, ret |-> db_usuario]

\* The loop over model_dump() without exclude_unset: every field of the
\* schema is in update_data, the ones that were not sent as None.
SetattrDeTodos(obj, update_data) ==
    [k \in DOMAIN obj |->
        IF k \in DOMAIN update_data THEN update_data[k]
        ELSE IF k \in {"id", "senha_hash", "criado_em"} THEN obj[k]
        ELSE IF k = "data_nascimento" THEN 0
        ELSE NULL]

\* for key, value in update_data.items(): setattr(obj, key, value)
\* (update_data is a function from the fields that were sent to their values)
Setattr(obj, update_data) ==
    [k \in DOMAIN obj |-> IF k \in DOMAIN update_data THEN update_data[k] ELSE obj[k]]

\* crud.atualizar_detalhes_usuario; detalhes is model_dump(exclude_unset=True).
atualizar_detalhes_usuario(usuario, detalhes) ==
    LET novo == Setattr(usuario, detalhes)
        tab == (usuarios \ {usuario}) \cup {novo}
    IN  [exc |-> IF UsuariosOk(tab) THEN "" ELSE "IntegrityError",
         usuarios |-> tab, ret |-> novo]

\* crud.mudar_senha_usuario that skips the check of the old password.
mudar_senha_usuario_sem_verificar(usuario, payload) ==
    LET novo == [usuario EXCEPT !.senha_hash = get_hash_da_senha(payload.senha_nova)]
    IN  [ret |-> TRUE, usuarios |-> (usuarios \ {usuario}) \cup {novo}]

\* crud.mudar_senha_usuario
mudar_senha_usuario(usuario, payload) ==
    IF ~verificar_senha(payload.senha_antiga, usuario.senha_hash)
    THEN [ret |-> FALSE, usuarios |-> usuarios]
    ELSE LET novo_hash == get_hash_da_senha(payload.senha_nova)
             novo == [usuario EXCEPT !.senha_hash = novo_hash]
         IN  [ret |-> TRUE, usuarios |-> (usuarios \ {usuario}) \cup {novo}]

\* crud.listar_categorias: the query has no ORDER BY, any order may come back.
listar_categorias == Enumeracoes(categorias)

\* crud.criar_categoria
criar_categoria(categoria) ==
    LET db_categoria ==
            [id |-> ProximoId(dialect, categorias, seq.categorias),
             nome |-> categoria.nome, tipo |-> categoria.tipo, cor |-> categoria.cor]
        tab == categorias \cup {db_categoria}
    IN  [exc |-> IF CategoriasOk(tab) THEN "" ELSE "IntegrityError",
         categorias |-> tab, ret |-> db_categoria]

\* crud.atualizar_categoria; categoria_update is model_dump(exclude_unset=True).
atualizar_categoria(categoria_id, categoria_update) ==
    IF ~\E c \in categorias : c.id = categoria_id
    THEN [exc |-> "", categorias |-> categorias, ret |-> Nenhum]
    ELSE LET db_categoria == CHOOSE c \in categorias : c.id = categoria_id
             nova == Setattr(db_categoria, categoria_update)
             tab == (categorias \ {db_categoria}) \cup {nova}
         IN  [exc |-> IF CategoriasOk(tab) THEN "" ELSE "IntegrityError",
              categorias |-> tab, ret |-> nova]

\* What the session flushes for db.delete(db_categoria): Categoria.transacoes
\* has no delete cascade, so the rows of the collection are detached first
\* (UPDATE transacoes SET categoria_id = NULL), then the category is deleted.
DesvincularTransacoes(categoria_id) ==
    {IF t.categoria_id = categoria_id THEN [t EXCEPT !.categoria_id = 0] ELSE t :
        t \in transacoes}

\* deletar_categoria on a store that lets the category go whatever still
\* refers to it.
deletar_categoria_sem_restricao(categoria_id) ==
    IF ~\E c \in categorias : c.id = categoria_id
    THEN [exc |-> "", categorias |-> categorias, transacoes |-> transacoes,
          ret |-> FALSE]
    ELSE [exc |-> "",
          categorias |-> {c \in categorias : c.id # categoria_id},
          transacoes |-> transacoes, ret |-> TRUE]

\* crud.deletar_categoria
deletar_categoria(categoria_id) ==
    IF ~\E c \in categorias : c.id = categoria_id
    THEN [exc |-> "", categorias |-> categorias, transacoes |-> transacoes,
          ret |-> FALSE]
    ELSE LET db_categoria == CHOOSE c \in categorias : c.id = categoria_id
             tabC == categorias \ {db_categoria}
             tabT == DesvincularTransacoes(categoria_id)
         IN  [exc |-> IF TransacoesOk(dialect, tabT, tabC, usuarios)
                      THEN "" ELSE "IntegrityError",
              categorias |-> tabC, transacoes |-> tabT, ret |-> TRUE]

\* crud.criar_transacao
criar_transacao(transacao, usuario_id) ==
    LET db_transacao ==
            [id |-> ProximoId(dialect, transacoes, seq.transacoes),
             descricao |-> transacao.descricao,
             valor |-> BindValor(dialect, transacao.valor),
             categoria_id |-> transacao.categoria_id,
             data |-> transacao.data,
             observacoes |-> transacao.observacoes,
             usuario_id |-> usuario_id]
        tab == transacoes \cup {db_transacao}
    IN  [exc |-> IF TransacoesOk(dialect, tab, categorias, usuarios)
                 THEN "" ELSE "IntegrityError",
         transacoes |-> tab, ret |-> db_transacao]

\* atualizar_transacao without the comparison of db_transacao.usuario_id
\* with the caller's id.
atualizar_transacao_sem_posse(transacao_id, transacao, usuario_id) ==
    IF ~\E t \in transacoes : t.id = transacao_id
    THEN [exc |-> "", transacoes |-> transacoes, ret |-> Nenhum]
    ELSE LET db_transacao == CHOOSE t \in transacoes : t.id = transacao_id
             nova == [db_transacao EXCEPT
                         !.descricao = transacao.descricao,
                         !.valor = BindValor(dialect, transacao.valor),
                         !.categoria_id = transacao.categoria_id,
                         !.data = transacao.data,
                         !.observacoes = transacao.observacoes]
             tab == (transacoes \ {db_transacao}) \cup {nova}
         IN  [exc |-> IF TransacoesOk(dialect, tab, categorias, usuarios)
                      THEN "" ELSE "IntegrityError",
              transacoes |-> tab, ret |-> nova]

\* crud.atualizar_transacao
atualizar_transacao(transacao_id, transacao, usuario_id) ==
    IF ~\E t \in transacoes : t.id = transacao_id
    THEN [exc |-> "", transacoes |-> transacoes, ret |-> Nenhum]
    ELSE LET db_transacao == CHOOSE t \in transacoes : t.id = transacao_id
             nova == [db_transacao EXCEPT
                         !.descricao = transacao.descricao,
                         !.valor = BindValor(dialect, transacao.valor),
                         !.categoria_id = transacao.categoria_id,
                         !.data = transacao.data,
                         !.observacoes = transacao.observacoes]
             tab == (transacoes \ {db_transacao}) \cup {nova}
         IN  IF db_transacao.usuario_id # usuario_id
             THEN [exc |-> "", transacoes |-> transacoes, ret |-> Nenhum]
             ELSE [exc |-> IF TransacoesOk(dialect, tab, categorias, usuarios)
                           THEN "" ELSE "IntegrityError",
                   transacoes |-> tab, ret |-> nova]

\* deletar_transacao without the comparison of db_transacao.usuario_id with
\* the caller's id.
deletar_transacao_sem_posse(transacao_id, usuario_id) ==
    IF ~\E t \in transacoes : t.id = transacao_id
    THEN [transacoes |-> transacoes, ret |-> FALSE]
    ELSE LET db_transacao == CHOOSE t \in transacoes : t.id = transacao_id
         IN  [transacoes |-> transacoes \ {db_transacao}, ret |-> TRUE]

\* crud.deletar_transacao
deletar_transacao(transacao_id, usuario_id) ==
    IF ~\E t \in transacoes : t.id = transacao_id
    THEN [transacoes |-> transacoes, ret |-> FALSE]
    ELSE LET db_transacao == CHOOSE t \in transacoes : t.id = transacao_id
         IN  IF db_transacao.usuario_id # usuario_id
             THEN [transacoes |-> transacoes, ret |-> FALSE]
             ELSE [transacoes |-> transacoes \ {db_transacao}, ret |-> TRUE]

(***************************************************************************)
(* The API layer (main.py): one action per endpoint.  resp keeps the        *)
(* response and, beside it, the request it answers: the whole request of a  *)
(* request that succeeded, the ids it named of one that was refused.        *)
(***************************************************************************)
Resposta(op, status, detail, usuario, req, body) ==
    [op |-> op, status |-> status, detail |-> detail, usuario |-> usuario,
     req |-> req, body |-> body, headers |-> <<>>]

\* HTTPException(status_code=401, ..., headers={"WWW-Authenticate": "Bearer"})
Resposta401(op, detail, req) ==
    [Resposta(op, 401, detail, 0, req, <<>>) EXCEPT
        !.headers = [WWW_Authenticate |-> "Bearer"]]

\* The response to a request that carried the credential token.
RespostaA(token, op, status, detail, usuario, req, body) ==
    Resposta(op, status, detail, usuario, req, body) @@ [token |-> token]

\* schemas.Usuario built from a row (the hash is not part of it).
UsuarioSchema(u) ==
    [id |-> u.id, nome_usuario |-> u.nome_usuario, criado_em |-> u.criado_em,
     nome_completo |-> u.nome_completo, data_nascimento |-> u.data_nascimento,
     avatar_url |-> u.avatar_url, email |-> u.email]

\* get_usuario_atual raising credentials_exception, or oauth2_scheme finding
\* no bearer token in the request: the handler is not run.
NaoAutorizado(token, op, req) ==
    /\ resp' = (IF token.esquema # "Bearer"
                THEN Resposta401(op, "Not authenticated", req)
                ELSE Resposta401(op, "Nao foi possivel validar as credenciais", req))
               @@ [token |-> token]
    /\ UNCHANGED <<dialect, sessoes, pendentes, relogio, usuarios, categorias, transacoes, seq, tokens>>

\* POST /usuarios/ without the query for the name before the insert.
criar_novo_usuario_sem_consulta(nome_usuario, senha, agora) ==
    LET req == [nome_usuario |-> nome_usuario, senha |-> senha]
        r == criar_usuario(nome_usuario, senha, agora)
    IN  /\ UNCHANGED <<dialect, sessoes, pendentes, relogio, categorias, transacoes, tokens>>
        /\ r.ret.id <= MaxUsuarios
        /\ seq' = [seq EXCEPT !.usuarios = ProximaSeq(dialect, @)]
        /\ IF r.exc # ""
           THEN /\ resp' = Resposta("criar_novo_usuario", 500, r.exc, 0, req, <<>>)
                /\ UNCHANGED usuarios
           ELSE /\ usuarios' = r.usuarios
                /\ resp' = Resposta("criar_novo_usuario", 201, "", 0, req,
                                    UsuarioSchema(r.ret))

\* POST /usuarios/
criar_novo_usuario(nome_usuario, senha, agora) ==
    LET req == [nome_usuario |-> nome_usuario, senha |-> senha]
        db_usuario == get_usuario_por_nome(nome_usuario)
        r == criar_usuario(nome_usuario, senha, agora)
    IN  /\ UNCHANGED <<dialect, sessoes, pendentes, relogio, categorias, transacoes, tokens>>
        /\ IF db_usuario.id # 0
           THEN /\ resp' = Resposta("criar_novo_usuario", 400,
                                    "Nome de usuario ja registrado", 0, req, <<>>)
                /\ UNCHANGED <<usuarios, seq>>
           ELSE /\ r.ret.id <= MaxUsuarios
                /\ seq' = [seq EXCEPT !.usuarios = ProximaSeq(dialect, @)]
                /\ IF r.exc # ""
                   THEN /\ resp' = Resposta("criar_novo_usuario", 500, r.exc, 0, req, <<>>)
                        /\ UNCHANGED usuarios
                   ELSE /\ usuarios' = r.usuarios
                        /\ resp' = Resposta("criar_novo_usuario", 201, "", 0, req,
                                            UsuarioSchema(r.ret))

\* POST /usuarios/ served concurrently with other requests, each with its own
\* session: the query for the name is one step, the insert and its commit
\* another.  pedido tells the requests in flight apart.
criar_novo_usuario_consulta(pedido, nome_usuario, senha) ==
    LET req == [nome_usuario |-> nome_usuario, senha |-> senha, pedido |-> pedido]
        db_usuario == get_usuario_por_nome(nome_usuario)
    IN  /\ \A p \in pendentes : p.pedido # pedido
        /\ UNCHANGED <<dialect, sessoes, relogio, usuarios, categorias, transacoes, seq, tokens>>
        /\ IF db_usuario.id # 0
           THEN /\ resp' = Resposta("criar_novo_usuario", 400,
                                    "Nome de usuario ja registrado", 0, req, <<>>)
                /\ UNCHANGED pendentes
           ELSE /\ pendentes' = pendentes \cup {req}
                /\ UNCHANGED resp

\* The rest of POST /usuarios/ for a request whose query found no user:
\* crud.criar_usuario, whose IntegrityError nothing catches.
criar_novo_usuario_commit(usuario, agora) ==
    LET r == criar_usuario(usuario.nome_usuario, usuario.senha, agora)
    IN  /\ usuario \in pendentes
        /\ r.ret.id <= MaxUsuarios
        /\ pendentes' = pendentes \ {usuario}
        /\ UNCHANGED <<dialect, sessoes, relogio, categorias, transacoes, tokens>>
        /\ seq' = [seq EXCEPT !.usuarios = ProximaSeq(dialect, @)]
        /\ IF r.exc # ""
           THEN /\ resp' = Resposta("criar_novo_usuario", 500, r.exc, 0, usuario, <<>>)
                /\ UNCHANGED usuarios
           ELSE /\ usuarios' = r.usuarios
                /\ resp' = Resposta("criar_novo_usuario", 201, "", 0, usuario,
                                    UsuarioSchema(r.ret))

\* POST /token that tells an unknown name from a wrong password.
login_para_obter_token_com_404(username, password) ==
    LET req == [username |-> username, password |-> password]
        usuario == get_usuario_por_nome(username)
    IN  /\ UNCHANGED <<dialect, sessoes, pendentes, relogio, usuarios, categorias, transacoes, seq>>
        /\ IF usuario.id = 0
           THEN /\ resp' = Resposta("login_para_obter_token", 404,
                                    "Usuario nao encontrado", 0, req, <<>>)
                /\ UNCHANGED tokens
           ELSE IF ~verificar_senha(password, usuario.senha_hash)
           THEN /\ resp' = Resposta401("login_para_obter_token",
                                       "Nome de usuario ou senha incorretos", req)
                /\ UNCHANGED tokens
           ELSE LET access_token ==
                        criar_token_de_acesso(usuario, ACCESS_TOKEN_EXPIRE_MINUTES)
                IN  /\ tokens' = tokens \cup {access_token}
                    /\ resp' = Resposta("login_para_obter_token", 200, "", usuario.id, req,
                                        [access_token |-> access_token,
                                         token_type |-> "bearer"])

\* POST /token
login_para_obter_token(username, password) ==
    LET req == [username |-> username, password |-> password]
        usuario == get_usuario_por_nome(username)
    IN  /\ UNCHANGED <<dialect, sessoes, pendentes, relogio, usuarios, categorias, transacoes, seq>>
        /\ IF usuario.id = 0 \/ ~verificar_senha(password, usuario.senha_hash)
           THEN /\ resp' = Resposta401("login_para_obter_token",
                                       "Nome de usuario ou senha incorretos", req)
                /\ UNCHANGED tokens
           ELSE LET access_token ==
                        criar_token_de_acesso(usuario, ACCESS_TOKEN_EXPIRE_MINUTES)
                IN  /\ tokens' = tokens \cup {access_token}
                    /\ resp' = Resposta("login_para_obter_token", 200, "", usuario.id, req,
                                        [access_token |-> access_token,
                                         token_type |-> "bearer"])

\* PUT /usuarios/me
atualizar_perfil_do_usuario(token, detalhes) ==
    LET usuario_atual == get_usuario_atual(token)
        r == atualizar_detalhes_usuario(usuario_atual, detalhes)
    IN  IF usuario_atual.id = 0
           THEN NaoAutorizado(token, "atualizar_perfil_do_usuario", detalhes)
           ELSE /\ UNCHANGED <<dialect, sessoes, pendentes, relogio, categorias, transacoes, seq, tokens>>
                /\ IF r.exc = "IntegrityError"
                   THEN /\ UNCHANGED usuarios
                        /\ resp' = RespostaA(token, "atualizar_perfil_do_usuario", 400,
                                       "Esse nome de usuario ou email ja esta em uso.",
                                       usuario_atual.id, detalhes, <<>>)
                   ELSE /\ usuarios' = r.usuarios
                        /\ resp' = RespostaA(token, "atualizar_perfil_do_usuario", 200, "",
                                       usuario_atual.id, detalhes, UsuarioSchema(r.ret))

\* GET /usuarios/me
ler_perfil_do_usuario(token) ==
    LET usuario_atual == get_usuario_atual(token)
    IN  IF usuario_atual.id = 0
           THEN NaoAutorizado(token, "ler_perfil_do_usuario", <<>>)
           ELSE /\ resp' = RespostaA(token, "ler_perfil_do_usuario", 200, "", usuario_atual.id,
                                  <<>>, UsuarioSchema(usuario_atual))
                /\ UNCHANGED <<dialect, sessoes, pendentes, relogio, usuarios, categorias,
                               transacoes, seq, tokens>>

\* POST /usuarios/mudar-senha
mudar_senha(token, payload) ==
    LET usuario_atual == get_usuario_atual(token)
        sucesso == mudar_senha_usuario(usuario_atual, payload)
    IN  IF usuario_atual.id = 0
           THEN NaoAutorizado(token, "mudar_senha", payload)
           ELSE /\ UNCHANGED <<dialect, sessoes, pendentes, relogio, categorias, transacoes, seq, tokens>>
                /\ IF ~sucesso.ret
                   THEN /\ UNCHANGED usuarios
                        /\ resp' = RespostaA(token, "mudar_senha", 400,
                                       "A senha antiga esta incorreta.",
                                       usuario_atual.id, payload, <<>>)
                   ELSE /\ usuarios' = sucesso.usuarios
                        /\ resp' = RespostaA(token, "mudar_senha", 200, "", usuario_atual.id, payload,
                                       [message |-> "Senha atualizada com sucesso."])

\* GET /categorias/ without Depends(get_usuario_atual).
ler_categorias_sem_usuario_atual(token) ==
    /\ \E lista \in listar_categorias :
          resp' = RespostaA(token, "ler_categorias", 200, "", 0, <<>>, lista)
    /\ UNCHANGED <<dialect, sessoes, pendentes, relogio, usuarios, categorias,
                   transacoes, seq, tokens>>

\* GET /categorias/
ler_categorias(token) ==
    LET usuario_atual == get_usuario_atual(token)
    IN  IF usuario_atual.id = 0
           THEN NaoAutorizado(token, "ler_categorias", <<>>)
           ELSE /\ \E lista \in listar_categorias :
                     resp' = RespostaA(token, "ler_categorias", 200, "", usuario_atual.id, <<>>, lista)
                /\ UNCHANGED <<dialect, sessoes, pendentes, relogio, usuarios, categorias,
                               transacoes, seq, tokens>>

\* GET /
ler_raiz ==
    /\ resp' = Resposta("ler_raiz", 200, "", 0, <<>>,
                        [message |-> "Bem-vindo a API de Controle Financeiro!"])
    /\ UNCHANGED <<dialect, sessoes, pendentes, relogio, usuarios, categorias, transacoes, seq, tokens>>

\* Time passes between two requests: agora is the next reading of
\* datetime.now(timezone.utc), in minutes.
PassaOTempo(agora) ==
    /\ agora > relogio
    /\ relogio' = agora
    /\ UNCHANGED <<dialect, sessoes, pendentes, usuarios, categorias, transacoes, seq, tokens, resp>>

\* POST /categorias/
criar_nova_categoria(token, categoria) ==
    LET usuario_atual == get_usuario_atual(token)
        r == criar_categoria(categoria)
    IN  IF usuario_atual.id = 0
           THEN NaoAutorizado(token, "criar_nova_categoria", categoria)
           ELSE /\ r.ret.id <= MaxCategorias
                /\ UNCHANGED <<dialect, sessoes, pendentes, relogio, usuarios, transacoes, tokens>>
                /\ seq' = [seq EXCEPT !.categorias = ProximaSeq(dialect, @)]
                /\ IF r.exc = "IntegrityError"
                   THEN /\ UNCHANGED categorias
                        /\ resp' = RespostaA(token, "criar_nova_categoria", 400,
                                       "Uma categoria com este nome ja existe.",
                                       usuario_atual.id, categoria, <<>>)
                   ELSE /\ categorias' = r.categorias
                        /\ resp' = RespostaA(token, "criar_nova_categoria", 200, "",
                                       usuario_atual.id, categoria, r.ret)

\* PUT /categorias/{categoria_id}
editar_categoria(token, categoria_id, categoria) ==
    LET usuario_atual == get_usuario_atual(token)
        req == [categoria_id |-> categoria_id, categoria |-> categoria]
        r == atualizar_categoria(categoria_id, categoria)
    IN  IF usuario_atual.id = 0
           THEN NaoAutorizado(token, "editar_categoria", req)
           ELSE /\ UNCHANGED <<dialect, sessoes, pendentes, relogio, usuarios, transacoes, seq, tokens>>
                /\ IF r.exc = "IntegrityError"
                   THEN /\ UNCHANGED categorias
                        /\ resp' = RespostaA(token, "editar_categoria", 400,
                                       "Uma categoria com este nome ja existe.",
                                       usuario_atual.id, req, <<>>)
                   ELSE IF r.ret.id = 0
                   THEN /\ UNCHANGED categorias
                        /\ resp' = RespostaA(token, "editar_categoria", 404,
                                       "Categoria nao encontrada",
                                       usuario_atual.id, req, <<>>)
                   ELSE /\ categorias' = r.categorias
                        /\ resp' = RespostaA(token, "editar_categoria", 200, "",
                                       usuario_atual.id, req, r.ret)

\* DELETE /categorias/{categoria_id}
deletar_categoria_endpoint(token, categoria_id) ==
    LET usuario_atual == get_usuario_atual(token)
        req == [categoria_id |-> categoria_id]
        r == deletar_categoria(categoria_id)
    IN  IF usuario_atual.id = 0
           THEN NaoAutorizado(token, "deletar_categoria_endpoint", req)
           ELSE /\ UNCHANGED <<dialect, sessoes, pendentes, relogio, usuarios, seq, tokens>>
                /\ IF r.exc = "IntegrityError"
                   THEN /\ UNCHANGED <<categorias, transacoes>>
                        /\ resp' = RespostaA(token, "deletar_categoria_endpoint", 400,
                                       "Nao e possivel excluir: Esta categoria ja esta sendo usada por transacoes.",
                                       usuario_atual.id, req, <<>>)
                   ELSE IF ~r.ret
                   THEN /\ UNCHANGED <<categorias, transacoes>>
                        /\ resp' = RespostaA(token, "deletar_categoria_endpoint", 404,
                                       "Categoria nao encontrada",
                                       usuario_atual.id, req, <<>>)
                   ELSE /\ categorias' = r.categorias
                        /\ transacoes' = r.transacoes
                        /\ resp' = RespostaA(token, "deletar_categoria_endpoint", 204, "",
                                       usuario_atual.id, req, <<>>)

\* schemas.TransacaoCreate: descricao, valor, categoria_id and data have no
\* default, observacoes defaults to None.  corpo is the request body, a
\* function from the fields that were sent to their values.
CamposDeTransacao == {"descricao", "valor", "categoria_id", "data", "observacoes"}

\* TransacaoCreate with descricao declared like observacoes (str | None = None).
TransacaoCreateValidaSemDescricao(corpo) ==
    {"valor", "categoria_id", "data"} \subseteq DOMAIN corpo

\* Whether the body passes the validation of the schema.
TransacaoCreateValida(corpo) ==
    {"descricao", "valor", "categoria_id", "data"} \subseteq DOMAIN corpo

\* The validated model: the fields sent, the default for the ones that were not.
TransacaoCreate(corpo) ==
    [k \in CamposDeTransacao |-> IF k \in DOMAIN corpo THEN corpo[k] ELSE NULL]

\* The 422 FastAPI answers when a parameter fails its validation.
RequestValidationError(token, op, usuario, req) ==
    /\ resp' = RespostaA(token, op, 422, "RequestValidationError", usuario, req, <<>>)
    /\ UNCHANGED <<dialect, sessoes, pendentes, relogio, usuarios, categorias, transacoes, seq, tokens>>

\* POST /transacoes/ with get_dashboard_data called before crud.criar_transacao.
criar_nova_transacao_resumo_anterior(token, corpo, data_inicio, data_fim) ==
    LET usuario_atual == get_usuario_atual(token)
        transacao == TransacaoCreate(corpo)
        req == [transacao |-> transacao, data_inicio |-> data_inicio,
                data_fim |-> data_fim, campos |-> DOMAIN corpo]
        falhou == [categoria_id |-> transacao.categoria_id]
        r == criar_transacao(transacao, usuario_atual.id)
    IN  IF usuario_atual.id = 0
           THEN NaoAutorizado(token, "criar_nova_transacao", req)
           ELSE IF ~TransacaoCreateValida(corpo)
           THEN RequestValidationError(token, "criar_nova_transacao", usuario_atual.id,
                                       [campos |-> DOMAIN corpo])
           ELSE /\ r.ret.id <= MaxTransacoes
                /\ UNCHANGED <<dialect, sessoes, pendentes, relogio, usuarios, categorias, tokens>>
                /\ seq' = [seq EXCEPT !.transacoes = ProximaSeq(dialect, @)]
                /\ IF r.exc = "IntegrityError"
                   THEN /\ UNCHANGED transacoes
                        /\ resp' = RespostaA(token, "criar_nova_transacao", 500, r.exc,
                                       usuario_atual.id, falhou, <<>>)
                   ELSE /\ transacoes' = r.transacoes
                        /\ \E dashboard_data \in
                               get_dashboard_data(usuario_atual.id, data_inicio, data_fim) :
                             resp' = RespostaA(token, "criar_nova_transacao", 200, "",
                                         usuario_atual.id, req, dashboard_data)

\* POST /transacoes/
criar_nova_transacao(token, corpo, data_inicio, data_fim) ==
    LET usuario_atual == get_usuario_atual(token)
        transacao == TransacaoCreate(corpo)
        req == [transacao |-> transacao, data_inicio |-> data_inicio,
                data_fim |-> data_fim, campos |-> DOMAIN corpo]
        falhou == [categoria_id |-> transacao.categoria_id]
        r == criar_transacao(transacao, usuario_atual.id)
    IN  IF usuario_atual.id = 0
           THEN NaoAutorizado(token, "criar_nova_transacao", req)
           ELSE IF ~TransacaoCreateValida(corpo)
           THEN RequestValidationError(token, "criar_nova_transacao", usuario_atual.id,
                                       [campos |-> DOMAIN corpo])
           ELSE /\ r.ret.id <= MaxTransacoes
                /\ UNCHANGED <<dialect, sessoes, pendentes, relogio, usuarios, categorias, tokens>>
                /\ seq' = [seq EXCEPT !.transacoes = ProximaSeq(dialect, @)]
                /\ IF r.exc = "IntegrityError"
                   THEN /\ UNCHANGED transacoes
                        /\ resp' = RespostaA(token, "criar_nova_transacao", 500, r.exc,
                                       usuario_atual.id, falhou, <<>>)
                   ELSE /\ transacoes' = r.transacoes
                        /\ \E dashboard_data \in
                               get_dashboard_data(usuario_atual.id, data_inicio, data_fim)' :
                             resp' = RespostaA(token, "criar_nova_transacao", 200, "",
                                         usuario_atual.id, req, dashboard_data)

\* PUT /transacoes/{transacao_id}
editar_transacao(token, transacao_id, corpo, data_inicio, data_fim) ==
    LET usuario_atual == get_usuario_atual(token)
        transacao == TransacaoCreate(corpo)
        req == [transacao_id |-> transacao_id, transacao |-> transacao,
                data_inicio |-> data_inicio, data_fim |-> data_fim,
                campos |-> DOMAIN corpo]
        falhou == [transacao_id |-> transacao_id,
                   categoria_id |-> transacao.categoria_id, campos |-> DOMAIN corpo]
        r == atualizar_transacao(transacao_id, transacao, usuario_atual.id)
    IN  IF usuario_atual.id = 0
           THEN NaoAutorizado(token, "editar_transacao", req)
           ELSE IF ~TransacaoCreateValida(corpo)
           THEN RequestValidationError(token, "editar_transacao", usuario_atual.id,
                    [transacao_id |-> transacao_id, campos |-> DOMAIN corpo])
           ELSE /\ UNCHANGED <<dialect, sessoes, pendentes, relogio, usuarios, categorias, seq, tokens>>
                /\ IF r.exc = "IntegrityError"
                   THEN /\ UNCHANGED transacoes
                        /\ resp' = RespostaA(token, "editar_transacao", 500, r.exc,
                                       usuario_atual.id, falhou, <<>>)
                   ELSE IF r.ret.id = 0
                   THEN /\ UNCHANGED transacoes
                        /\ resp' = RespostaA(token, "editar_transacao", 404,
                                       "Transacao nao encontrada",
                                       usuario_atual.id,
                                       [transacao_id |-> transacao_id,
                                        campos |-> DOMAIN corpo], <<>>)
                   ELSE /\ transacoes' = r.transacoes
                        /\ \E dashboard_data \in
                               get_dashboard_data(usuario_atual.id, data_inicio, data_fim)' :
                             resp' = RespostaA(token, "editar_transacao", 200, "",
                                         usuario_atual.id, req, dashboard_data)

\* DELETE /transacoes/{transacao_id}
deletar_transacao_e_recalcular(token, transacao_id, data_inicio, data_fim) ==
    LET usuario_atual == get_usuario_atual(token)
        req == [transacao_id |-> transacao_id, data_inicio |-> data_inicio,
                data_fim |-> data_fim]
        r == deletar_transacao(transacao_id, usuario_atual.id)
    IN  IF usuario_atual.id = 0
           THEN NaoAutorizado(token, "deletar_transacao_e_recalcular", req)
           ELSE /\ UNCHANGED <<dialect, sessoes, pendentes, relogio, usuarios, categorias, seq, tokens>>
                /\ IF ~r.ret
                   THEN /\ UNCHANGED transacoes
                        /\ resp' = RespostaA(token, "deletar_transacao_e_recalcular", 404,
                                       "Transacao nao encontrada",
                                       usuario_atual.id, req, <<>>)
                   ELSE /\ transacoes' = r.transacoes
                        /\ \E dashboard_data \in
                               get_dashboard_data(usuario_atual.id, data_inicio, data_fim)' :
                             resp' = RespostaA(token, "deletar_transacao_e_recalcular", 200, "",
                                         usuario_atual.id, req, dashboard_data)

\* response_model=List[schemas.Transacao]: schemas.Transacao.categoria is a
\* required schemas.Categoria, so a row without one fails the serialisation.
TransacoesSerializaveis(lista) ==
    \A i \in DOMAIN lista : lista[i].categoria.id # 0

\* GET /transacoes/
ler_transacoes(token, skip, limit) ==
    LET usuario_atual == get_usuario_atual(token)
        req == [skip |-> skip, limit |-> limit]
    IN  IF usuario_atual.id = 0
           THEN NaoAutorizado(token, "ler_transacoes", req)
           ELSE /\ UNCHANGED <<dialect, sessoes, pendentes, relogio, usuarios, categorias, transacoes, seq, tokens>>
                /\ \E lista \in listar_transacoes(usuario_atual.id, skip, limit) :
                     resp' = IF TransacoesSerializaveis(lista)
                             THEN RespostaA(token, "ler_transacoes", 200, "",
                                      usuario_atual.id, req, lista)
                             ELSE RespostaA(token, "ler_transacoes", 500, "ResponseValidationError",
                                      usuario_atual.id, req, <<>>)

\* GET /transacoes/periodo/
ler_transacoes_por_periodo(token, data_inicio, data_fim) ==
    LET usuario_atual == get_usuario_atual(token)
        req == [data_inicio |-> data_inicio, data_fim |-> data_fim]
    IN  IF usuario_atual.id = 0
           THEN NaoAutorizado(token, "ler_transacoes_por_periodo", req)
           ELSE /\ UNCHANGED <<dialect, sessoes, pendentes, relogio, usuarios, categorias, transacoes, seq, tokens>>
                /\ \E lista \in listar_transacoes_por_periodo(usuario_atual.id,
                                                              data_inicio, data_fim) :
                     resp' = IF TransacoesSerializaveis(lista)
                             THEN RespostaA(token, "ler_transacoes_por_periodo", 200, "",
                                      usuario_atual.id, req, lista)
                             ELSE RespostaA(token, "ler_transacoes_por_periodo", 500,
                                      "ResponseValidationError",
                                      usuario_atual.id, req, <<>>)

\* GET /dashboard/
ler_dados_dashboard(token, data_inicio, data_fim) ==
    LET usuario_atual == get_usuario_atual(token)
        req == [data_inicio |-> data_inicio, data_fim |-> data_fim]
    IN  IF usuario_atual.id = 0
           THEN NaoAutorizado(token, "ler_dados_dashboard", req)
           ELSE /\ UNCHANGED <<dialect, sessoes, pendentes, relogio, usuarios, categorias, transacoes, seq, tokens>>
                /\ \E dashboard_data \in
                       get_dashboard_data(usuario_atual.id, data_inicio, data_fim) :
                     resp' = RespostaA(token, "ler_dados_dashboard", 200, "",
                                 usuario_atual.id, req, dashboard_data)

\* GET /relatorios/tendencia
ler_dados_de_tendencia(token, data_inicio, data_fim, filtro) ==
    LET usuario_atual == get_usuario_atual(token)
        req == [data_inicio |-> data_inicio, data_fim |-> data_fim, filtro |-> filtro]
    IN  IF usuario_atual.id = 0
           THEN NaoAutorizado(token, "ler_dados_de_tendencia", req)
           ELSE /\ UNCHANGED <<dialect, sessoes, pendentes, relogio, usuarios, categorias, transacoes, seq, tokens>>
                /\ resp' = RespostaA(token, "ler_dados_de_tendencia", 200, "",
                               usuario_atual.id, req,
                               get_dados_de_tendencia(usuario_atual.id, data_inicio,
                                                      data_fim, filtro))

(***************************************************************************)
(* Sessions.  get_db (main.py) is the dependency that gives a request its   *)
(* session: db = SessionLocal(); try: yield db; finally: db.close().        *)
(* task_recalculate_dashboard (tasks.py) does the same by hand.  A session  *)
(* is [pedido, origem, estado, saida, fechamentos]: the request or task it  *)
(* serves, who opened it, where the code around it is, how the code inside  *)
(* the try ended, and how many times close() was called on it.              *)
(***************************************************************************)
Sessao(pedido, origem, estado) ==
    [pedido |-> pedido, origem |-> origem, estado |-> estado,
     saida |-> NULL, fechamentos |-> 0]

\* Everything but the sessions.
SemSessao == <<dialect, usuarios, categorias, transacoes, seq, tokens, resp,
               pendentes, relogio>>

\* get_db up to its yield: db = SessionLocal(); try: yield db
get_db_abre(pedido) ==
    /\ \A s \in sessoes : s.pedido # pedido
    /\ sessoes' = sessoes \cup {Sessao(pedido, "get_db", "yield")}
    /\ UNCHANGED SemSessao

\* The path operation (or a dependency after get_db) ends: it returns, it
\* raises an HTTPException, or it fails with an exception nothing handles.
\* The exit stack of the request then resumes get_db at its yield.
handler_termina(sessao, saida) ==
    /\ sessao \in sessoes
    /\ sessao.origem = "get_db" /\ sessao.estado = "yield"
    /\ sessoes' = (sessoes \ {sessao})
                      \cup {[sessao EXCEPT !.estado = "finally", !.saida = saida]}
    /\ UNCHANGED SemSessao

\* get_db without try/finally: db = SessionLocal(); yield db; db.close().
\* An exception thrown in at the yield leaves the generator before close().
get_db_fecha_sem_finally(sessao) ==
    /\ sessao \in sessoes
    /\ sessao.origem = "get_db" /\ sessao.estado = "finally"
    /\ sessoes' = (sessoes \ {sessao}) \cup
          {IF sessao.saida = "return"
           THEN [sessao EXCEPT !.estado = "fechada", !.fechamentos = @ + 1]
           ELSE [sessao EXCEPT !.estado = "abandonada"]}
    /\ UNCHANGED SemSessao

\* get_db after its yield: finally: db.close()
get_db_fecha(sessao) ==
    /\ sessao \in sessoes
    /\ sessao.origem = "get_db" /\ sessao.estado = "finally"
    /\ sessoes' = (sessoes \ {sessao})
                      \cup {[sessao EXCEPT !.estado = "fechada", !.fechamentos = @ + 1]}
    /\ UNCHANGED SemSessao

\* task_recalculate_dashboard up to its try: db = SessionLocal()
task_recalculate_dashboard_abre(pedido) ==
    /\ \A s \in sessoes : s.pedido # pedido
    /\ sessoes' = sessoes \cup {Sessao(pedido, "task_recalculate_dashboard", "try")}
    /\ UNCHANGED SemSessao

\* The try block of the task: crud.get_dashboard_data returns, or raises and
\* the except Exception clause prints the error.
task_recalculate_dashboard_calcula(sessao, saida) ==
    /\ sessao \in sessoes
    /\ sessao.origem = "task_recalculate_dashboard" /\ sessao.estado = "try"
    /\ sessoes' = (sessoes \ {sessao})
                      \cup {[sessao EXCEPT !.estado = "finally", !.saida = saida]}
    /\ UNCHANGED SemSessao

\* The finally block of the task: db.close()
task_recalculate_dashboard_fecha(sessao) ==
    /\ sessao \in sessoes
    /\ sessao.origem = "task_recalculate_dashboard" /\ sessao.estado = "finally"
    /\ sessoes' = (sessoes \ {sessao})
                      \cup {[sessao EXCEPT !.estado = "fechada", !.fechamentos = @ + 1]}
    /\ UNCHANGED SemSessao

\* The request has been answered (the task has finished) and its closed
\* session is garbage.
sessao_coletada(sessao) ==
    /\ sessao \in sessoes
    /\ sessao.estado = "fechada"
    /\ sessoes' = sessoes \ {sessao}
    /\ UNCHANGED SemSessao

(***************************************************************************)
(* PUT /transacoes/{transacao_id} in the two steps another request can come  *)
(* between: crud.atualizar_transacao's query, which loads the row into the   *)
(* request's session, and its commit, which flushes the assignments made to  *)
(* the loaded object.  Endpoints are plain functions, which run in the       *)
(* thread pool, each with the session of its own get_db.                     *)
(***************************************************************************)

\* The attributes the flush finds modified: the unit of work compares each
\* assigned value with the value the session loaded and puts in the UPDATE
\* only the columns whose value differs.
AtributosAlterados(lida, transacao) ==
    {k \in CamposDeTransacao : transacao[k] # lida[k]}

\* The row as the session holds it after the query.
LinhaLida(t) == [t EXCEPT !.valor = ResultValor(dialect, @)]

\* Dependencies, validation of the body and crud.atualizar_transacao up to the
\* ownership test.
editar_transacao_consulta(pedido, token, transacao_id, corpo, data_inicio, data_fim) ==
    LET usuario_atual == get_usuario_atual(token)
        transacao == TransacaoCreate(corpo)
        req == [transacao_id |-> transacao_id, transacao |-> transacao,
                data_inicio |-> data_inicio, data_fim |-> data_fim,
                campos |-> DOMAIN corpo]
        nao_achada == [transacao_id |-> transacao_id, campos |-> DOMAIN corpo]
    IN  /\ \A p \in pendentes : p.pedido # pedido
        /\ IF usuario_atual.id = 0
           THEN NaoAutorizado(token, "editar_transacao", req)
           ELSE IF ~TransacaoCreateValida(corpo)
           THEN RequestValidationError(token, "editar_transacao", usuario_atual.id,
                    nao_achada)
           ELSE IF \/ ~\E t \in transacoes : t.id = transacao_id
                   \/ \E t \in transacoes : /\ t.id = transacao_id
                                            /\ t.usuario_id # usuario_atual.id
           THEN /\ resp' = RespostaA(token, "editar_transacao", 404,
                               "Transacao nao encontrada", usuario_atual.id,
                               nao_achada, <<>>)
                /\ UNCHANGED <<dialect, sessoes, pendentes, relogio, usuarios,
                               categorias, transacoes, seq, tokens>>
           ELSE LET db_transacao == CHOOSE t \in transacoes : t.id = transacao_id
                IN  /\ pendentes' = pendentes \cup
                          {[pedido |-> pedido, token |-> token,
                            usuario_id |-> usuario_atual.id, req |-> req,
                            db_transacao |-> LinhaLida(db_transacao)]}
                    /\ UNCHANGED <<dialect, sessoes, relogio, usuarios, categorias,
                                   transacoes, seq, tokens, resp>>

\* The five assignments, db.commit() and the handler's get_dashboard_data.
\* The UPDATE names the row by its primary key; when it matches no row the
\* flush raises StaleDataError, which nothing catches.
editar_transacao_commit(p) ==
    LET transacao == p.req.transacao
        alterados == AtributosAlterados(p.db_transacao, transacao)
        falhou == [transacao_id |-> p.req.transacao_id,
                   categoria_id |-> transacao.categoria_id, campos |-> p.req.campos]
    IN  /\ p \in pendentes
        /\ pendentes' = pendentes \ {p}
        /\ UNCHANGED <<dialect, sessoes, relogio, usuarios, categorias, seq, tokens>>
        /\ IF ~\E t \in transacoes : t.id = p.req.transacao_id
           THEN /\ UNCHANGED transacoes
                /\ resp' = RespostaA(p.token, "editar_transacao", 500, "StaleDataError",
                               p.usuario_id, falhou, <<>>)
           ELSE LET atual == CHOOSE t \in transacoes : t.id = p.req.transacao_id
                    nova == [k \in DOMAIN atual |->
                                IF k \notin alterados THEN atual[k]
                                ELSE IF k = "valor"
                                THEN BindValor(dialect, transacao.valor)
                                ELSE transacao[k]]
                    tab == (transacoes \ {atual}) \cup {nova}
                IN  IF ~TransacoesOk(dialect, tab, categorias, usuarios)
                    THEN /\ UNCHANGED transacoes
                         /\ resp' = RespostaA(p.token, "editar_transacao", 500,
                                        "IntegrityError", p.usuario_id, falhou, <<>>)
                    ELSE /\ transacoes' = tab
                         /\ \E u \in {p.usuario_id} :
                              \E dashboard_data \in
                                 get_dashboard_data(u, p.req.data_inicio,
                                                    p.req.data_fim)' :
                                resp' = RespostaA(p.token, "editar_transacao", 200, "",
                                            p.usuario_id,
                                            p.req @@ [pedido |-> p.pedido],
                                            dashboard_data)

(***************************************************************************)
(* The state after construction: models.Base.metadata.create_all on an      *)
(* empty database, whichever of the two database.py selected.               *)
(***************************************************************************)
Init ==
    /\ dialect \in {"postgresql", "sqlite"}
    /\ usuarios = {}
    /\ categorias = {}
    /\ transacoes = {}
    /\ seq = [usuarios |-> 0, categorias |-> 0, transacoes |-> 0]
    /\ tokens = {}
    /\ resp = Resposta("", 0, "", 0, <<>>, <<>>)
    /\ pendentes = {}
    /\ relogio = 0
    /\ sessoes = {}

(***************************************************************************)
(* Requests.  Days are numbered from 2024-01-01 = 1, so 31 is 2024-01-31    *)
(* and 32 is 2024-02-01.                                                    *)
(***************************************************************************)
Nomes == {"ana", "bob"}

Senhas == {"s1"}

\* Clock readings of datetime.utcnow when a user row is inserted.
Agoras == {DateTime(1, 0, 0)}

Salario == [nome |-> "Salario", tipo |-> "Receita", cor |-> "#00FF00"]

Aluguel == [nome |-> "Aluguel", tipo |-> "Gasto", cor |-> "#FF0000"]

\* schemas.TransacaoCreate payloads
Transacao(descricao, valor, categoria_id, data, observacoes) ==
    [descricao |-> descricao, valor |-> valor, categoria_id |-> categoria_id,
     data |-> data, observacoes |-> observacoes]

\* Path parameters: the ids a table may have given, and one it has not.
IdsDeCategoria == 1..(MaxCategorias + 1)

IdsDeTransacao == 1..(MaxTransacoes + 1)

\* The default of the query parameter limit of GET /transacoes/.
LimitPadrao == 100

(***************************************************************************)
(* Spec: transactions and their owners.  Two accounts, one category,        *)
(* transactions created, replaced, deleted and listed.  A payload names     *)
(* category 1 or 2; no category ever has id 2 here.                         *)
(***************************************************************************)
TransacoesPosse ==
    {Transacao("mercado", 500000, c, DateTime(15, 36900, 0), NULL) : c \in 1..MaxCategorias}
    \cup
    {Transacao("cafe", 4, c, UltimoInstante(31), "troco") : c \in 1..MaxCategorias}

Next ==
    \/ \E n \in Nomes, s \in Senhas, a \in Agoras : criar_novo_usuario(n, s, a)
    \/ \E n \in Nomes, s \in Senhas : login_para_obter_token(n, s)
    \/ \E t \in tokens : criar_nova_categoria(t, Salario)
    \/ \E t \in tokens, p \in TransacoesPosse : criar_nova_transacao(t, p, 1, 31)
    \/ \E t \in tokens, i \in IdsDeTransacao, p \in TransacoesPosse :
          editar_transacao(t, i, p, 1, 31)
    \/ \E t \in tokens, i \in IdsDeTransacao : deletar_transacao_e_recalcular(t, i, 1, 31)
    \/ \E t \in tokens : ler_transacoes(t, 0, LimitPadrao)
    \/ \E t \in tokens : ler_transacoes_por_periodo(t, 1, 31)

Spec == Init /\ [][Next]_vars

(***************************************************************************)
(* C1.  A transaction belongs to the account that created it and stays with *)
(* it; a list or period list answers with rows of the requesting account    *)
(* only; an update or a delete of a transaction of another account answers  *)
(* 404 and leaves the table of transactions as it was.                      *)
(***************************************************************************)
C1_PosseNoPasso ==
    /\ (resp'.op = "criar_nova_transacao" /\ resp'.status = 200) =>
          \A t \in transacoes' \ transacoes : t.usuario_id = resp'.usuario
    /\ \A t \in transacoes, n \in transacoes' :
          t.id = n.id => t.usuario_id = n.usuario_id
    /\ (resp'.op \in {"ler_transacoes", "ler_transacoes_por_periodo"}
            /\ resp'.status = 200) =>
          \A i \in DOMAIN resp'.body :
              /\ resp'.body[i].usuario_id = resp'.usuario
              /\ \E t \in transacoes : /\ t.id = resp'.body[i].id
                                       /\ t.usuario_id = resp'.usuario
    /\ (/\ resp'.op \in {"editar_transacao", "deletar_transacao_e_recalcular"}
        /\ resp'.usuario # 0
        /\ \E t \in transacoes : /\ t.id = resp'.req.transacao_id
                                 /\ t.usuario_id # resp'.usuario) =>
          (resp'.status = 404 /\ transacoes' = transacoes)

C1_Isolamento == [][C1_PosseNoPasso]_vars

\* B was answered 404 for the id of a transaction that A owns.
C1_Witness ==
    /\ resp.op = "editar_transacao"
    /\ resp.status = 404
    /\ resp.usuario # 0
    /\ \E t \in transacoes : t.id = resp.req.transacao_id /\ t.usuario_id # resp.usuario

(***************************************************************************)
(* C9.  Round trip: the list and the period list requested right after a    *)
(* successful create (same account, limit large enough, range holding the   *)
(* payload's day) answer 200 with a row whose descricao, valor, data,       *)
(* categoria_id and observacoes are the payload's and whose owner is the    *)
(* creating account.                                                        *)
(***************************************************************************)
IgualAoPayload(linha, transacao, usuario_id) ==
    /\ linha.descricao = transacao.descricao
    /\ linha.valor = transacao.valor
    /\ linha.data = transacao.data
    /\ linha.categoria_id = transacao.categoria_id
    /\ linha.observacoes = transacao.observacoes
    /\ linha.usuario_id = usuario_id

C9_IdaEVoltaNoPasso ==
    (/\ resp.op = "criar_nova_transacao"
     /\ resp.status = 200
     /\ resp'.op \in {"ler_transacoes", "ler_transacoes_por_periodo"}
     /\ resp'.usuario = resp.usuario) =>
        /\ resp'.status = 200
        /\ \E i \in DOMAIN resp'.body :
              IgualAoPayload(resp'.body[i], resp.req.transacao, resp.usuario)

C9_IdaEVolta == [][C9_IdaEVoltaNoPasso]_vars

Mercado == [nome |-> "Mercado", tipo |-> "Gasto", cor |-> "#FFA500"]

(***************************************************************************)
(* What a claim about the aggregates is measured against: the transactions  *)
(* of an account whose category has a given type and whose calendar day is  *)
(* one of those from data_inicio to data_fim, and the amount of each as the *)
(* transaction endpoints return it.                                         *)
(***************************************************************************)
OpsComDashboard ==
    {"ler_dados_dashboard", "criar_nova_transacao", "editar_transacao",
     "deletar_transacao_e_recalcular"}

DoUsuarioNosDias(usuario_id, data_inicio, data_fim) ==
    {t \in transacoes : /\ t.usuario_id = usuario_id
                        /\ data_inicio <= t.data.dia
                        /\ t.data.dia <= data_fim}

DoTipoNosDias(usuario_id, tipo, data_inicio, data_fim) ==
    {t \in DoUsuarioNosDias(usuario_id, data_inicio, data_fim) :
        \E c \in categorias : c.id = t.categoria_id /\ c.tipo = tipo}

DaCategoriaNosDias(usuario_id, c, data_inicio, data_fim) ==
    {t \in DoUsuarioNosDias(usuario_id, data_inicio, data_fim) : t.categoria_id = c.id}

RECURSIVE SomaDosValoresListados(_)
SomaDosValoresListados(ts) ==
    IF ts = {} THEN 0
    ELSE LET t == CHOOSE x \in ts : TRUE
         IN  Carregada(t).valor + SomaDosValoresListados(ts \ {t})

RECURSIVE SomaDeValorTotal(_)
SomaDeValorTotal(lista) ==
    IF lista = <<>> THEN 0
    ELSE Head(lista).valor_total + SomaDeValorTotal(Tail(lista))

(***************************************************************************)
(* SpecCategoria: categories in use.  One account creates categories and    *)
(* transactions in them, deletes transactions and deletes categories.       *)
(***************************************************************************)
UmNome == {"ana"}

TransacoesCategoria ==
    {Transacao("mercado", 500000, c, DateTime(15, 36900, 0), NULL) : c \in 1..MaxCategorias}

NextCategoria ==
    \/ \E n \in UmNome, s \in Senhas, a \in Agoras : criar_novo_usuario(n, s, a)
    \/ \E n \in UmNome, s \in Senhas : login_para_obter_token(n, s)
    \/ \E t \in tokens, c \in {Salario, Aluguel} : criar_nova_categoria(t, c)
    \/ \E t \in tokens, p \in TransacoesCategoria : criar_nova_transacao(t, p, 1, 31)
    \/ \E t \in tokens, i \in IdsDeTransacao : deletar_transacao_e_recalcular(t, i, 1, 31)
    \/ \E t \in tokens, i \in IdsDeCategoria : deletar_categoria_endpoint(t, i)

SpecCategoria == Init /\ [][NextCategoria]_vars

(***************************************************************************)
(* C2.  DELETE /categorias/{id} for a category that a transaction refers to *)
(* answers 400 with the in-use message and leaves the categories and the    *)
(* transactions exactly as they were; for an id no category has it answers  *)
(* 404 with another message.                                                *)
(***************************************************************************)
C2_EmUsoNoPasso ==
    (resp'.op = "deletar_categoria_endpoint" /\ resp'.usuario # 0) =>
        /\ (\E c \in categorias : /\ c.id = resp'.req.categoria_id
                                   /\ \E t \in transacoes : t.categoria_id = c.id) =>
              /\ resp'.status = 400
              /\ resp'.detail =
                   "Nao e possivel excluir: Esta categoria ja esta sendo usada por transacoes."
              /\ categorias' = categorias
              /\ transacoes' = transacoes
        /\ (~\E c \in categorias : c.id = resp'.req.categoria_id) =>
              /\ resp'.status = 404
              /\ resp'.detail = "Categoria nao encontrada"
              /\ categorias' = categorias
              /\ transacoes' = transacoes

C2_CategoriaEmUso == [][C2_EmUsoNoPasso]_vars

\* The delete of a category that a stored transaction refers to was refused.
C2_Witness ==
    /\ resp.op = "deletar_categoria_endpoint"
    /\ resp.status = 400
    /\ \E c \in categorias : /\ c.id = resp.req.categoria_id
                              /\ \E t \in transacoes : t.categoria_id = c.id

(***************************************************************************)
(* SpecParcial: sparse updates.  An account edits its profile, and          *)
(* categories are created and edited.  A payload is the function from the   *)
(* fields that were sent to the values sent (None included).                *)
(***************************************************************************)
DetalhesDeUsuario ==
    { [nome_completo |-> "Ana Lima", data_nascimento |-> 7],
      [nome_completo |-> NULL],
      [nome_usuario |-> "ana", avatar_url |-> "a.png"],
      [nome_usuario |-> "ana", email |-> "ana@nomad.dev"] }

CategoriaUpdates ==
    { [cor |-> "#0000FF"],
      [nome |-> "Moradia", tipo |-> "Gasto"],
      [nome |-> NULL] }

NextParcial ==
    \/ \E n \in UmNome, s \in Senhas, a \in Agoras : criar_novo_usuario(n, s, a)
    \/ \E n \in UmNome, s \in Senhas : login_para_obter_token(n, s)
    \/ \E t \in tokens, d \in DetalhesDeUsuario : atualizar_perfil_do_usuario(t, d)
    \/ \E t \in tokens, c \in {Salario, Aluguel} : criar_nova_categoria(t, c)
    \/ \E t \in tokens, i \in IdsDeCategoria, c \in CategoriaUpdates :
          editar_categoria(t, i, c)

SpecParcial == Init /\ [][NextParcial]_vars

(***************************************************************************)
(* C10.  A profile update or a category update that succeeds gives every    *)
(* field present in the payload the value sent and leaves every other field *)
(* of the row (for a user also id, senha_hash and criado_em) and every      *)
(* other row as they were.                                                  *)
(***************************************************************************)
\* tabela' is tabela with the row of this id patched by payload.
SoOsCamposEnviados(tabela, tabelaNova, id, payload) ==
    \E antes \in tabela, depois \in tabelaNova :
        /\ antes.id = id
        /\ depois.id = id
        /\ tabelaNova \ {depois} = tabela \ {antes}
        /\ DOMAIN depois = DOMAIN antes
        /\ \A k \in DOMAIN antes :
              IF k \in DOMAIN payload THEN depois[k] = payload[k]
                                       ELSE depois[k] = antes[k]

C10_ParcialNoPasso ==
    /\ (resp'.op = "atualizar_perfil_do_usuario" /\ resp'.status = 200) =>
          /\ SoOsCamposEnviados(usuarios, usuarios', resp'.usuario, resp'.req)
          /\ categorias' = categorias
    /\ (resp'.op = "editar_categoria" /\ resp'.status = 200) =>
          /\ SoOsCamposEnviados(categorias, categorias', resp'.req.categoria_id,
                                 resp'.req.categoria)
          /\ usuarios' = usuarios

C10_AtualizacaoParcial == [][C10_ParcialNoPasso]_vars

\* A profile update went through on a row that had a field, absent from the
\* payload, holding a value of its own.
C10_Witness ==
    /\ resp.op = "atualizar_perfil_do_usuario"
    /\ resp.status = 200
    /\ "avatar_url" \notin DOMAIN resp.req
    /\ \E u \in usuarios : u.id = resp.usuario /\ u.avatar_url # NULL

(***************************************************************************)
(* SpecDashboard: the dashboard summary.  Two accounts, categories of both  *)
(* types, transactions of 1000.00, 500.00 and 0.004 on 2024-01-15, and the  *)
(* summary read for January and for the second half of January.             *)
(***************************************************************************)
TransacoesDashboard ==
    {Transacao("lancamento", v, c, DateTime(15, 36900, 0), NULL) :
        v \in {1000000, 500000, 4}, c \in 1..MaxCategorias}

PeriodosDashboard == {<<1, 31>>, <<16, 31>>}

NextDashboard ==
    \/ \E n \in Nomes, s \in Senhas, a \in Agoras : criar_novo_usuario(n, s, a)
    \/ \E n \in Nomes, s \in Senhas : login_para_obter_token(n, s)
    \/ \E t \in tokens, c \in {Salario, Aluguel, Mercado} : criar_nova_categoria(t, c)
    \/ \E t \in tokens, p \in TransacoesDashboard : criar_nova_transacao(t, p, 1, 31)
    \/ \E t \in tokens, r \in PeriodosDashboard : ler_dados_dashboard(t, r[1], r[2])

SpecDashboard == Init /\ [][NextDashboard]_vars

(***************************************************************************)
(* C3.  In every dashboard summary total_receitas is the sum of the amounts *)
(* of the account's transactions in a category of type Receita dated within *)
(* the range (0 when there is none), total_gastos the same for type Gasto,  *)
(* and lucro_liquido is total_receitas - total_gastos.                      *)
(***************************************************************************)
C3_TotaisExatos ==
    (resp.op \in OpsComDashboard /\ resp.status = 200) =>
        LET u == resp.usuario
            di == resp.req.data_inicio
            df == resp.req.data_fim
        IN  /\ resp.body.total_receitas =
                  SomaDosValoresListados(DoTipoNosDias(u, "Receita", di, df))
            /\ resp.body.total_gastos =
                  SomaDosValoresListados(DoTipoNosDias(u, "Gasto", di, df))
            /\ resp.body.lucro_liquido =
                  resp.body.total_receitas - resp.body.total_gastos

(***************************************************************************)
(* C5.  In every dashboard summary each of the two breakdown lists is in    *)
(* non-increasing order of valor_total, the valor_total of                  *)
(* gastos_por_categoria add up to total_gastos and those of                 *)
(* receitas_por_categoria to total_receitas.                                *)
(***************************************************************************)
NaoCrescente(lista) ==
    \A i, j \in DOMAIN lista : i < j => lista[i].valor_total >= lista[j].valor_total

C5_ListasOrdenadasESomas ==
    (resp.op \in OpsComDashboard /\ resp.status = 200) =>
        /\ NaoCrescente(resp.body.gastos_por_categoria)
        /\ NaoCrescente(resp.body.receitas_por_categoria)
        /\ SomaDeValorTotal(resp.body.gastos_por_categoria) = resp.body.total_gastos
        /\ SomaDeValorTotal(resp.body.receitas_por_categoria) = resp.body.total_receitas

(***************************************************************************)
(* C6.  In every dashboard summary a category with transactions of the      *)
(* account in the range has exactly one entry, in the list of its type,     *)
(* whose total_compras is their number and whose valor_total is the sum of  *)
(* their amounts; a list has no other entry.  One 1000.00 in Salario and    *)
(* one 500.00 in Aluguel on 2024-01-15 give, for January 2024, 1000.00 /    *)
(* 500.00 / 500.00 and one entry with total_compras = 1 in each list.       *)
(***************************************************************************)
EntradasDe(lista, c) ==
    {i \in DOMAIN lista : lista[i].nome_categoria = c.nome /\ lista[i].cor = c.cor}

ListaDoTipo(body, tipo) ==
    IF tipo = "Gasto" THEN body.gastos_por_categoria ELSE body.receitas_por_categoria

C6_UmaEntradaPorCategoria ==
    (resp.op \in OpsComDashboard /\ resp.status = 200) =>
        LET u == resp.usuario
            di == resp.req.data_inicio
            df == resp.req.data_fim
        IN  /\ \A c \in categorias, tipo \in {"Receita", "Gasto"} :
                  LET ts == DaCategoriaNosDias(u, c, di, df)
                      lista == ListaDoTipo(resp.body, tipo)
                  IN  IF ts # {} /\ c.tipo = tipo
                      THEN /\ Cardinality(EntradasDe(lista, c)) = 1
                           /\ \A i \in EntradasDe(lista, c) :
                                 /\ lista[i].total_compras = Cardinality(ts)
                                 /\ lista[i].valor_total = SomaDosValoresListados(ts)
                      ELSE EntradasDe(lista, c) = {}
            /\ \A tipo \in {"Receita", "Gasto"} :
                  \A i \in DOMAIN ListaDoTipo(resp.body, tipo) :
                      \E c \in categorias : i \in EntradasDe(ListaDoTipo(resp.body, tipo), c)
            /\ (/\ di = 1 /\ df = 31
                 /\ \E s, a \in categorias, x, y \in transacoes :
                       /\ s.nome = "Salario" /\ s.tipo = "Receita"
                       /\ a.nome = "Aluguel" /\ a.tipo = "Gasto"
                       /\ x.categoria_id = s.id /\ x.valor = 1000000 /\ x.data.dia = 15
                       /\ y.categoria_id = a.id /\ y.valor = 500000 /\ y.data.dia = 15
                       /\ DoUsuarioNosDias(u, di, df) = {x, y}) =>
                  /\ resp.body.total_receitas = 1000000
                  /\ resp.body.total_gastos = 500000
                  /\ resp.body.lucro_liquido = 500000
                  /\ Len(resp.body.receitas_por_categoria) = 1
                  /\ Len(resp.body.gastos_por_categoria) = 1
                  /\ resp.body.receitas_por_categoria[1].total_compras = 1
                  /\ resp.body.gastos_por_categoria[1].total_compras = 1

(***************************************************************************)
(* SpecTendencia: the end of the range and the trend series.  Transactions  *)
(* of 1.00 at 10:15 and 10:30 of 2024-01-15, at the last instant of         *)
(* 2024-01-31 and at 00:00 of 2024-02-01; the summary, the trend series     *)
(* (by hour and by day) and the period list read for January.               *)
(***************************************************************************)
InstantesTendencia ==
    {DateTime(15, 36900, 0), DateTime(15, 37800, 0), UltimoInstante(31), Meianoite(32)}

TransacoesTendencia ==
    {Transacao("lancamento", 1000, c, d, NULL) :
        c \in 1..MaxCategorias, d \in InstantesTendencia}

Filtros == {"daily", "monthly"}

NextTendencia ==
    \/ \E n \in Nomes, s \in Senhas, a \in Agoras : criar_novo_usuario(n, s, a)
    \/ \E n \in Nomes, s \in Senhas : login_para_obter_token(n, s)
    \/ \E t \in tokens, c \in {Salario, Aluguel} : criar_nova_categoria(t, c)
    \/ \E t \in tokens, p \in TransacoesTendencia : criar_nova_transacao(t, p, 1, 31)
    \/ \E t \in tokens : ler_dados_dashboard(t, 1, 31)
    \/ \E t \in tokens, f \in Filtros : ler_dados_de_tendencia(t, 1, 31, f)
    \/ \E t \in tokens : ler_transacoes_por_periodo(t, 1, 31)

SpecTendencia == Init /\ [][NextTendencia]_vars

RECURSIVE SomaDosPontos(_)
SomaDosPontos(lista) ==
    IF lista = <<>> THEN 0
    ELSE Head(lista).valor + SomaDosPontos(Tail(lista))

SerieDoTipo(body, tipo) == IF tipo = "Gasto" THEN body.despesas ELSE body.receitas

TotalDoTipoNoResumo(body, tipo) ==
    IF tipo = "Gasto" THEN body.total_gastos ELSE body.total_receitas

(***************************************************************************)
(* C4.  The range ends with the whole calendar day data_fim: the summary's  *)
(* totals and the trend series add up the transactions of the account (of   *)
(* the type) whose calendar day is from data_inicio to data_fim, the last   *)
(* instant of data_fim included and 00:00 of the next day excluded, no      *)
(* point of the series lies outside those days, and a period list that is   *)
(* answered holds exactly the account's transactions of those days.         *)
(***************************************************************************)
C4_FimInclusivo ==
    LET u == resp.usuario
        di == resp.req.data_inicio
        df == resp.req.data_fim
    IN  /\ (resp.op \in OpsComDashboard /\ resp.status = 200) =>
              \A tipo \in {"Receita", "Gasto"} :
                  TotalDoTipoNoResumo(resp.body, tipo) =
                      SomaDosValoresListados(DoTipoNosDias(u, tipo, di, df))
        /\ (resp.op = "ler_dados_de_tendencia" /\ resp.status = 200) =>
              \A tipo \in {"Receita", "Gasto"} :
                  /\ SomaDosPontos(SerieDoTipo(resp.body, tipo)) =
                        SomaDosValoresListados(DoTipoNosDias(u, tipo, di, df))
                  /\ \A i \in DOMAIN SerieDoTipo(resp.body, tipo) :
                        /\ di <= SerieDoTipo(resp.body, tipo)[i].data.dia
                        /\ SerieDoTipo(resp.body, tipo)[i].data.dia <= df
        /\ (resp.op = "ler_transacoes_por_periodo" /\ resp.status = 200) =>
              {resp.body[i].id : i \in DOMAIN resp.body} =
                  {t.id : t \in DoUsuarioNosDias(u, di, df)}

\* A trend series that counts a transaction of the last instant of data_fim
\* and leaves out one of the account dated 00:00 of the day after.
C4_Witness ==
    /\ resp.op = "ler_dados_de_tendencia"
    /\ resp.status = 200
    /\ \E x, y \in transacoes, c \in categorias :
          /\ x.usuario_id = resp.usuario /\ y.usuario_id = resp.usuario
          /\ x.categoria_id = c.id /\ y.categoria_id = c.id
          /\ c.tipo = "Receita"
          /\ x.data = UltimoInstante(resp.req.data_fim)
          /\ y.data = Meianoite(resp.req.data_fim + 1)
          /\ SomaDosPontos(resp.body.receitas) = Carregada(x).valor

(***************************************************************************)
(* C7.  In a trend series each list is in strictly ascending order of its   *)
(* keys (so no key twice); with filtro = "daily" a key is the timestamp of  *)
(* a transaction cut to the hour, in the shape YYYY-MM-DD HH:00:00 whatever *)
(* the dialect; with any other filtro a key is a calendar date.             *)
(***************************************************************************)
ChaveAntes(a, b, filtro) ==
    \/ a.dia < b.dia
    \/ a.dia = b.dia /\ filtro = "daily" /\ a.hora < b.hora

C7_ChavesOrdenadas ==
    (resp.op = "ler_dados_de_tendencia" /\ resp.status = 200) =>
        \A tipo \in {"Receita", "Gasto"} :
            LET serie == SerieDoTipo(resp.body, tipo)
                filtro == resp.req.filtro
            IN  /\ \A i, j \in DOMAIN serie :
                      i < j => ChaveAntes(serie[i].data, serie[j].data, filtro)
                /\ \A i \in DOMAIN serie :
                      IF filtro = "daily"
                      THEN /\ DOMAIN serie[i].data =
                                {"formato", "dia", "hora", "minuto", "segundo"}
                           /\ serie[i].data.formato = "YYYY-MM-DD HH:MI:SS"
                           /\ serie[i].data.minuto = 0
                           /\ serie[i].data.segundo = 0
                           /\ \E t \in transacoes :
                                 /\ serie[i].data.dia = t.data.dia
                                 /\ serie[i].data.hora = t.data.seg \div 3600
                      ELSE /\ DOMAIN serie[i].data = {"formato", "dia"}
                           /\ serie[i].data.formato = "YYYY-MM-DD"
                           /\ \E t \in transacoes : serie[i].data.dia = t.data.dia

\* An hourly series of two points, the first of an hour that holds a
\* transaction made after the hour struck.
C7_Witness ==
    /\ resp.op = "ler_dados_de_tendencia"
    /\ resp.status = 200
    /\ resp.req.filtro = "daily"
    /\ Len(resp.body.receitas) = 2
    /\ \E t \in transacoes :
          /\ t.data.dia = resp.body.receitas[1].data.dia
          /\ t.data.seg \div 3600 = resp.body.receitas[1].data.hora
          /\ t.data.seg % 3600 # 0

(***************************************************************************)
(* C8.  In a trend series a key is in receitas exactly when the account has *)
(* a transaction of a Receita category, dated within the range, in that     *)
(* bucket, and in despesas exactly when it has one of a Gasto category: a   *)
(* bucket without transactions of the type has no point.                    *)
(***************************************************************************)
NoBalde(t, chave, filtro) ==
    /\ chave.dia = t.data.dia
    /\ filtro = "daily" => chave.hora = t.data.seg \div 3600

C8_PontoSseTransacao ==
    (resp.op = "ler_dados_de_tendencia" /\ resp.status = 200) =>
        \A tipo \in {"Receita", "Gasto"} :
            LET serie == SerieDoTipo(resp.body, tipo)
                ts == DoTipoNosDias(resp.usuario, tipo, resp.req.data_inicio,
                                    resp.req.data_fim)
            IN  /\ \A i \in DOMAIN serie :
                      \E t \in ts : NoBalde(t, serie[i].data, resp.req.filtro)
                /\ \A t \in ts :
                      \E i \in DOMAIN serie : NoBalde(t, serie[i].data, resp.req.filtro)

\* A series whose receitas have a point of a bucket for which despesas have
\* none, although despesas are not empty.
C8_Witness ==
    /\ resp.op = "ler_dados_de_tendencia"
    /\ resp.status = 200
    /\ resp.body.despesas # <<>>
    /\ \E i \in DOMAIN resp.body.receitas :
          \A j \in DOMAIN resp.body.despesas :
              resp.body.despesas[j].data # resp.body.receitas[i].data

(***************************************************************************)
(* C11.  A successful update of a transaction by its owner leaves the       *)
(* stored row with descricao, valor, categoria_id, data and observacoes     *)
(* equal to the payload's values and with the id and the owner it had; no   *)
(* other row changes.                                                       *)
(***************************************************************************)
C11_SubstituicaoNoPasso ==
    (resp'.op = "editar_transacao" /\ resp'.status = 200) =>
        \E antes \in transacoes, depois \in transacoes' :
            /\ antes.id = resp'.req.transacao_id
            /\ depois.id = antes.id
            /\ depois.usuario_id = antes.usuario_id
            /\ antes.usuario_id = resp'.usuario
            /\ transacoes' \ {depois} = transacoes \ {antes}
            /\ depois.descricao = resp'.req.transacao.descricao
            /\ depois.valor = resp'.req.transacao.valor
            /\ depois.categoria_id = resp'.req.transacao.categoria_id
            /\ depois.data = resp'.req.transacao.data
            /\ depois.observacoes = resp'.req.transacao.observacoes

C11_SubstituicaoTotal == [][C11_SubstituicaoNoPasso]_vars

(***************************************************************************)
(* SpecCorpo: the body of PUT /transacoes/{id}.  One account, one category, *)
(* a transaction created, then updated with the whole body and with a body  *)
(* that leaves one of the five fields out.                                  *)
(***************************************************************************)
CorpoInteiro == Transacao("mercado", 500000, 1, DateTime(15, 36900, 0), "feira")

CorpoNovo == Transacao("cafe", 1000, 1, DateTime(16, 0, 0), "troco")

\* The body without the field k.
SemOCampo(corpo, k) == [c \in DOMAIN corpo \ {k} |-> corpo[c]]

CorposDeEdicao == {CorpoNovo} \cup {SemOCampo(CorpoNovo, k) : k \in CamposDeTransacao}

NextCorpo ==
    \/ \E n \in UmNome, s \in Senhas, a \in Agoras : criar_novo_usuario(n, s, a)
    \/ \E n \in UmNome, s \in Senhas : login_para_obter_token(n, s)
    \/ \E t \in tokens : criar_nova_categoria(t, Salario)
    \/ \E t \in tokens : criar_nova_transacao(t, CorpoInteiro, 1, 31)
    \/ \E t \in tokens, i \in IdsDeTransacao, c \in CorposDeEdicao :
          editar_transacao(t, i, c, 1, 31)

SpecCorpo == Init /\ [][NextCorpo]_vars

(***************************************************************************)
(* C12.  As the spec states it: an update whose body leaves out any one of  *)
(* descricao, valor, categoria_id, data, observacoes is answered with a     *)
(* validation error (422) and the table of transactions is unchanged.       *)
(***************************************************************************)
C12_TodosObrigatoriosNoPasso ==
    (/\ resp'.op = "editar_transacao"
     /\ resp'.usuario # 0
     /\ resp'.req.campos # CamposDeTransacao) =>
        (resp'.status = 422 /\ transacoes' = transacoes)

C12_TodosObrigatorios == [][C12_TodosObrigatoriosNoPasso]_vars

(***************************************************************************)
(* C12, amended.  An update whose body leaves out descricao, valor,         *)
(* categoria_id or data is answered with a validation error (422) and the   *)
(* table of transactions is unchanged; a body that leaves out observacoes   *)
(* only is not a validation error, and when the update succeeds the stored  *)
(* observacoes is null.                                                     *)
(***************************************************************************)
C12_ObrigatoriosNoPasso ==
    (resp'.op = "editar_transacao" /\ resp'.usuario # 0) =>
        IF {"descricao", "valor", "categoria_id", "data"} \subseteq resp'.req.campos
        THEN /\ resp'.status # 422
             /\ (resp'.status = 200 /\ "observacoes" \notin resp'.req.campos) =>
                   \E t \in transacoes' : /\ t.id = resp'.req.transacao_id
                                           /\ t.observacoes = NULL
        ELSE resp'.status = 422 /\ transacoes' = transacoes

C12_CamposObrigatorios == [][C12_ObrigatoriosNoPasso]_vars

\* An update without observacoes went through and the note that the
\* transaction had is gone.
C12_Witness ==
    /\ resp.op = "editar_transacao"
    /\ resp.status = 200
    /\ "observacoes" \notin resp.req.campos
    /\ \E t \in transacoes : t.id = resp.req.transacao_id /\ t.observacoes = NULL

(***************************************************************************)
(* SpecSenha: passwords.  Two accounts registered with s1 or s2; logins     *)
(* with either password, and password changes with either password given as *)
(* the current one and either as the new one.                               *)
(***************************************************************************)
SenhasDeTroca == {"s1", "s2"}

UsuarioChangePassword ==
    [senha_antiga : SenhasDeTroca, senha_nova : SenhasDeTroca]

NextSenha ==
    \/ \E n \in Nomes, s \in SenhasDeTroca, a \in Agoras : criar_novo_usuario(n, s, a)
    \/ \E n \in Nomes, s \in SenhasDeTroca : login_para_obter_token(n, s)
    \/ \E t \in tokens, p \in UsuarioChangePassword : mudar_senha(t, p)
    \/ \E t \in tokens : ler_perfil_do_usuario(t)

SpecSenha == Init /\ [][NextSenha]_vars

\* POST /token with these credentials would be answered with a token.
LoginAceito(username, password) ==
    LET usuario == get_usuario_por_nome(username)
    IN  usuario.id # 0 /\ verificar_senha(password, usuario.senha_hash)

(***************************************************************************)
(* C13.  A password change whose current password does not verify against  *)
(* the stored hash is answered 400 and no user row changes, so the old      *)
(* password still logs in; one whose current password verifies replaces the *)
(* hash of that account only, after which login is accepted with the new    *)
(* password and refused with the old one (when the two differ).  Login is   *)
(* answered 200 exactly when the credentials are accepted.                  *)
(***************************************************************************)
C13_TrocaNoPasso ==
    /\ (resp'.op = "mudar_senha" /\ resp'.usuario # 0) =>
          \E u \in usuarios :
             /\ u.id = resp'.usuario
             /\ IF ~verificar_senha(resp'.req.senha_antiga, u.senha_hash)
                THEN /\ resp'.status = 400
                     /\ usuarios' = usuarios
                     /\ \A s \in SenhasDeTroca :
                           LoginAceito(u.nome_usuario, s)' = LoginAceito(u.nome_usuario, s)
                ELSE /\ resp'.status = 200
                     /\ \E n \in usuarios' :
                           /\ n = [u EXCEPT !.senha_hash = n.senha_hash]
                           /\ usuarios' \ {n} = usuarios \ {u}
                     /\ \A antiga, nova \in SenhasDeTroca :
                           (antiga = resp'.req.senha_antiga /\ nova = resp'.req.senha_nova) =>
                              /\ LoginAceito(u.nome_usuario, nova)'
                              /\ antiga # nova => ~LoginAceito(u.nome_usuario, antiga)'
    /\ resp'.op = "login_para_obter_token" =>
          (resp'.status = 200) = LoginAceito(resp'.req.username, resp'.req.password)

C13_TrocaDeSenha == [][C13_TrocaNoPasso]_vars

\* An account changed its password into a different one: the new one is
\* accepted at login and the old one is not.
C13_Witness ==
    /\ resp.op = "mudar_senha"
    /\ resp.status = 200
    /\ resp.req.senha_antiga # resp.req.senha_nova
    /\ \E u \in usuarios :
          /\ u.id = resp.usuario
          /\ LoginAceito(u.nome_usuario, resp.req.senha_nova)
          /\ ~LoginAceito(u.nome_usuario, resp.req.senha_antiga)

(***************************************************************************)
(* C14.  POST /usuarios/ with a nome_usuario that a stored user has is      *)
(* answered 400, and the table of users after it is the table before it: no *)
(* user is created and none is changed.                                     *)
(***************************************************************************)
C14_DuplicadoNoPasso ==
    (/\ resp'.op = "criar_novo_usuario"
     /\ \E u \in usuarios : u.nome_usuario = resp'.req.nome_usuario) =>
        /\ resp'.status = 400
        /\ resp'.detail = "Nome de usuario ja registrado"
        /\ usuarios' = usuarios

C14_NomeDuplicado == [][C14_DuplicadoNoPasso]_vars

\* A registration was refused for a name that a stored user has.
C14_Witness ==
    /\ resp.op = "criar_novo_usuario"
    /\ resp.status = 400
    /\ \E u \in usuarios : u.nome_usuario = resp.req.nome_usuario

(***************************************************************************)
(* SpecRegistro: registrations that interleave.  Up to MaxPedidos requests  *)
(* are in flight between their query for the name and their commit.         *)
(***************************************************************************)
MaxPedidos == 2

Pedidos == 1..MaxPedidos

NextRegistro ==
    \/ \E i \in Pedidos, n \in Nomes, s \in SenhasDeTroca :
          criar_novo_usuario_consulta(i, n, s)
    \/ \E p \in pendentes, a \in Agoras : criar_novo_usuario_commit(p, a)
    \/ \E n \in Nomes, s \in SenhasDeTroca : login_para_obter_token(n, s)

SpecRegistro == Init /\ [][NextRegistro]_vars

(***************************************************************************)
(* C15.  When a registration commits after another one with the same name   *)
(* has committed (both passed the query for the name), one user with that   *)
(* name is stored and the request that lost is answered with a client error *)
(* (4xx), not with a server error.                                          *)
(***************************************************************************)
C15_PerdedorNoPasso ==
    (/\ resp'.op = "criar_novo_usuario"
     /\ pendentes' # pendentes
     /\ resp'.req \in pendentes
     /\ \E u \in usuarios : u.nome_usuario = resp'.req.nome_usuario) =>
        /\ Cardinality({u \in usuarios' : u.nome_usuario = resp'.req.nome_usuario}) = 1
        /\ resp'.status \in 400..499

C15_ConflitoNoCommit == [][C15_PerdedorNoPasso]_vars

\* The part of C15 about the store: no two users with one name, whatever the
\* interleaving.
C15_UmUsuarioPorNome ==
    \A u, v \in usuarios : u.nome_usuario = v.nome_usuario => u = v

\* The endpoints that write to the store.
OpsQueEscrevem ==
    {"criar_novo_usuario", "atualizar_perfil_do_usuario", "mudar_senha",
     "criar_nova_categoria", "editar_categoria", "deletar_categoria_endpoint",
     "criar_nova_transacao", "editar_transacao", "deletar_transacao_e_recalcular"}

(***************************************************************************)
(* C16.  An integrity violation that the store raises on the commit of a    *)
(* mutating endpoint is caught by the endpoint: the caller gets a client    *)
(* error (400), never a server error, and the tables are as they were       *)
(* before the request.                                                      *)
(***************************************************************************)
C16_ViolacaoNoPasso ==
    (resp'.op \in OpsQueEscrevem /\ resp'.status >= 400) =>
        /\ resp'.status < 500
        /\ store' = store

C16_ViolacaoTratada == [][C16_ViolacaoNoPasso]_vars

(***************************************************************************)
(* SpecToken: bearer tokens.  One account that may rename itself; time      *)
(* passes; protected endpoints are called with a token that login issued    *)
(* (which may have expired, or name an account that no longer has that      *)
(* name) or with a token that was never issued.                             *)
(***************************************************************************)
\* The clock when a request arrives: at the start, at the very minute a
\* token issued at the start expires, and one minute later.
Relogios == {0, ACCESS_TOKEN_EXPIRE_MINUTES, ACCESS_TOKEN_EXPIRE_MINUTES + 1}

\* A JWT signed with another key.
TokenDeOutraChave ==
    [esquema |-> "Bearer", jwt |-> TRUE, assinatura |-> "OUTRA_CHAVE",
     sub |-> "ana", exp |-> 3 * ACCESS_TOKEN_EXPIRE_MINUTES, dono |-> 0]

\* A string that is not a JWT.
TokenMalformado ==
    [esquema |-> "Bearer", jwt |-> FALSE, assinatura |-> NULL,
     sub |-> NULL, exp |-> 0, dono |-> 0]

\* A JWT signed with SECRET_KEY whose payload has no sub.
TokenSemSub ==
    [esquema |-> "Bearer", jwt |-> TRUE, assinatura |-> SECRET_KEY,
     sub |-> NULL, exp |-> 3 * ACCESS_TOKEN_EXPIRE_MINUTES, dono |-> 0]

TokensForjados == {TokenDeOutraChave, TokenMalformado, TokenSemSub}

NovoNome == [nome_usuario |-> "bia"]

NextToken ==
    \/ \E n \in UmNome, s \in Senhas, a \in Agoras : criar_novo_usuario(n, s, a)
    \/ \E n \in UmNome, s \in Senhas : login_para_obter_token(n, s)
    \/ \E agora \in Relogios : PassaOTempo(agora)
    \/ \E t \in tokens \cup TokensForjados : atualizar_perfil_do_usuario(t, NovoNome)
    \/ \E t \in tokens \cup TokensForjados : ler_perfil_do_usuario(t)
    \/ \E t \in tokens \cup TokensForjados : criar_nova_categoria(t, Salario)

SpecToken == Init /\ [][NextToken]_vars

(***************************************************************************)
(* SpecAcesso: every endpoint, called with a token that login issued, with  *)
(* no Authorization header at all, or with a bearer token that resolves to  *)
(* no user.                                                                 *)
(***************************************************************************)
\* A request with no Authorization header.
SemCredencial ==
    [esquema |-> NULL, jwt |-> FALSE, assinatura |-> NULL,
     sub |-> NULL, exp |-> 0, dono |-> 0]

Credenciais == tokens \cup {SemCredencial, TokenMalformado}

NomeCompleto == [nome_completo |-> "Ana Lima"]

TrocaDeSenha == [senha_antiga |-> "s1", senha_nova |-> "s1"]

OutraCor == [cor |-> "#0000FF"]

NextAcesso ==
    \/ \E n \in UmNome, s \in Senhas, a \in Agoras : criar_novo_usuario(n, s, a)
    \/ \E n \in UmNome, s \in Senhas : login_para_obter_token(n, s)
    \/ ler_raiz
    \/ \E t \in Credenciais : ler_perfil_do_usuario(t)
    \/ \E t \in Credenciais : atualizar_perfil_do_usuario(t, NomeCompleto)
    \/ \E t \in Credenciais : mudar_senha(t, TrocaDeSenha)
    \/ \E t \in Credenciais : ler_categorias(t)
    \/ \E t \in Credenciais : criar_nova_categoria(t, Salario)
    \/ \E t \in Credenciais : editar_categoria(t, 1, OutraCor)
    \/ \E t \in Credenciais : deletar_categoria_endpoint(t, 1)
    \/ \E t \in Credenciais : criar_nova_transacao(t, CorpoInteiro, 1, 31)
    \/ \E t \in Credenciais : editar_transacao(t, 1, CorpoInteiro, 1, 31)
    \/ \E t \in Credenciais : deletar_transacao_e_recalcular(t, 1, 1, 31)
    \/ \E t \in Credenciais : ler_transacoes(t, 0, LimitPadrao)
    \/ \E t \in Credenciais : ler_transacoes_por_periodo(t, 1, 31)
    \/ \E t \in Credenciais : ler_dados_dashboard(t, 1, 31)
    \/ \E t \in Credenciais : ler_dados_de_tendencia(t, 1, 31, "monthly")

SpecAcesso == Init /\ [][NextAcesso]_vars

\* Every endpoint but POST /token, POST /usuarios/ and GET /.
OpsProtegidas ==
    {"ler_perfil_do_usuario", "atualizar_perfil_do_usuario", "mudar_senha",
     "ler_categorias", "criar_nova_categoria", "editar_categoria",
     "deletar_categoria_endpoint", "criar_nova_transacao", "editar_transacao",
     "deletar_transacao_e_recalcular", "ler_transacoes", "ler_transacoes_por_periodo",
     "ler_dados_dashboard", "ler_dados_de_tendencia"}

\* The ways a bearer token fails: malformed, bad signature, expired, no sub,
\* a sub that no user has.
NaoEUmJwt(token) == ~token.jwt

AssinaturaInvalida(token) == token.jwt /\ token.assinatura # SECRET_KEY

TokenExpirado(token) == token.jwt /\ token.exp < relogio

TokenSemSujeito(token) == token.jwt /\ token.sub = NULL

SujeitoInexistente(token) ==
    token.jwt /\ token.sub # NULL /\ \A u \in usuarios : u.nome_usuario # token.sub

TokenInvalido(token) ==
    \/ NaoEUmJwt(token)
    \/ AssinaturaInvalida(token)
    \/ TokenExpirado(token)
    \/ TokenSemSujeito(token)
    \/ SujeitoInexistente(token)

\* What of a response the caller sees.
Visivel(r) == <<r.status, r.detail, r.headers, r.body>>

\* The one response to a bearer token that fails.
NaoValidado ==
    <<401, "Nao foi possivel validar as credenciais", [WWW_Authenticate |-> "Bearer"], <<>>>>

(***************************************************************************)
(* C17.  A protected endpoint called with a bearer token that is malformed, *)
(* has a bad signature, is expired, has no sub, or has a sub that no user   *)
(* has, answers with one and the same 401 response (status, detail,         *)
(* headers, empty body) whatever the failure and whatever the endpoint, and *)
(* the handler is not run: the store, the sequences and the tokens are      *)
(* unchanged.  (A step that leaves the clock alone is a request.)           *)
(***************************************************************************)
C17_FalhaNoPasso ==
    (/\ relogio' = relogio
     /\ resp'.op \in OpsProtegidas
     /\ resp'.token.esquema = "Bearer"
     /\ TokenInvalido(resp'.token)) =>
        /\ Visivel(resp') = NaoValidado
        /\ resp'.usuario = 0
        /\ UNCHANGED <<store, seq, tokens>>

C17_FalhaUnica == [][C17_FalhaNoPasso]_vars

\* A token that login issued was presented after it expired and refused; it
\* names an account that exists.
C17_Witness ==
    /\ resp.op \in OpsProtegidas
    /\ resp.token \in tokens
    /\ TokenExpirado(resp.token)
    /\ ~SujeitoInexistente(resp.token)
    /\ Visivel(resp) = NaoValidado

(***************************************************************************)
(* C18.  A request to a protected endpoint that carries no bearer token, or *)
(* a token that does not resolve to an existing user, is answered 401 with  *)
(* an empty body, and the store is unchanged.                               *)
(***************************************************************************)
C18_SemAcessoNoPasso ==
    (/\ relogio' = relogio
     /\ resp'.op \in OpsProtegidas
     /\ resp'.token.esquema # "Bearer" \/ TokenInvalido(resp'.token)) =>
        /\ resp'.status = 401
        /\ resp'.body = <<>>
        /\ UNCHANGED <<store, seq, tokens>>

C18_EndpointsProtegidos == [][C18_SemAcessoNoPasso]_vars

\* GET /categorias/ without an Authorization header was answered 401 while
\* there was a category to list.
C18_Witness ==
    /\ resp.op = "ler_categorias"
    /\ resp.token = SemCredencial
    /\ resp.status = 401
    /\ categorias # {}

\* The one response to an update or a delete that found no transaction.
NaoEncontrada == <<404, "Transacao nao encontrada", <<>>, <<>>>>

(***************************************************************************)
(* C19.  An update or a delete of a transaction, by an authenticated        *)
(* account and with a valid body, whose id is not the id of a transaction   *)
(* of that account, gets one and the same response (404, the one detail,    *)
(* no headers, empty body) whether the id belongs to a transaction of       *)
(* another account or to none, and the store is unchanged: what the caller  *)
(* sees does not depend on the transactions of other accounts.              *)
(***************************************************************************)
C19_AlheiaNoPasso ==
    (/\ resp'.op \in {"editar_transacao", "deletar_transacao_e_recalcular"}
     /\ resp'.usuario # 0
     /\ resp'.status # 422
     /\ ~\E t \in transacoes : /\ t.id = resp'.req.transacao_id
                                /\ t.usuario_id = resp'.usuario) =>
        /\ Visivel(resp') = NaoEncontrada
        /\ UNCHANGED <<store, seq, tokens>>

C19_AlheiaComoInexistente == [][C19_AlheiaNoPasso]_vars

\* A delete of a transaction of another account was answered as not found,
\* and the transaction is still there.
C19_Witness ==
    /\ resp.op = "deletar_transacao_e_recalcular"
    /\ Visivel(resp) = NaoEncontrada
    /\ resp.usuario # 0
    /\ \E t \in transacoes : t.id = resp.req.transacao_id /\ t.usuario_id # resp.usuario

(***************************************************************************)
(* C20.  POST /token with a username that no user has and POST /token with  *)
(* the username of a user and a password that does not verify get one and   *)
(* the same 401 response (status, detail, headers, empty body), and no      *)
(* token is issued.                                                         *)
(***************************************************************************)
C20_RecusaNoPasso ==
    (/\ resp'.op = "login_para_obter_token"
     /\ \/ \A u \in usuarios : u.nome_usuario # resp'.req.username
        \/ \E u \in usuarios : /\ u.nome_usuario = resp'.req.username
                                /\ u.senha_hash # get_hash_da_senha(resp'.req.password)) =>
        /\ Visivel(resp') =
              <<401, "Nome de usuario ou senha incorretos", [WWW_Authenticate |-> "Bearer"], <<>>>>
        /\ tokens' = tokens
        /\ store' = store

C20_LoginGenerico == [][C20_RecusaNoPasso]_vars

\* A login with the name of a user and a wrong password was refused.
C20_Witness ==
    /\ resp.op = "login_para_obter_token"
    /\ resp.status = 401
    /\ \E u \in usuarios : /\ u.nome_usuario = resp.req.username
                            /\ ~verificar_senha(resp.req.password, u.senha_hash)

(***************************************************************************)
(* C21.  The summary in the answer to a successful create, update or delete *)
(* of a transaction is a summary that GET /dashboard/ gives, for the same   *)
(* account and range, on the store as the request left it: with the created *)
(* row in it, without the deleted one, with the updated one in place of its *)
(* former self.                                                             *)
(***************************************************************************)
C21_ResumoNoPasso ==
    (/\ resp'.op \in {"criar_nova_transacao", "editar_transacao",
                      "deletar_transacao_e_recalcular"}
     /\ resp'.status = 200) =>
        /\ \E u \in {resp'.usuario}, di \in {resp'.req.data_inicio},
              df \in {resp'.req.data_fim} :
                resp'.body \in get_dashboard_data(u, di, df)'
        /\ resp'.op = "criar_nova_transacao" =>
              /\ transacoes \subseteq transacoes'
              /\ \E t \in transacoes' \ transacoes :
                    /\ t.usuario_id = resp'.usuario
                    /\ transacoes' = transacoes \cup {t}
        /\ resp'.op = "deletar_transacao_e_recalcular" =>
              /\ transacoes' \subseteq transacoes
              /\ \A t \in transacoes' : t.id # resp'.req.transacao_id
        /\ resp'.op = "editar_transacao" =>
              {t.id : t \in transacoes'} = {t.id : t \in transacoes}

C21_ResumoAposCommit == [][C21_ResumoNoPasso]_vars

\* A create was answered with a summary that counts the created row: the
\* summary of the store before it had other totals.
C21_Witness ==
    /\ resp.op = "criar_nova_transacao"
    /\ resp.status = 200
    /\ resp.body \in get_dashboard_data(resp.usuario, resp.req.data_inicio, resp.req.data_fim)
    /\ resp.body.total_receitas = 500000
    /\ Cardinality({t \in transacoes : t.usuario_id = resp.usuario}) = 1

(***************************************************************************)
(* SpecInvertido: ranges whose data_inicio is after their data_fim.  One    *)
(* account with transactions on the days 15 and 16, of both types; the      *)
(* summaries and the series are asked for 16..15 and 31..1, and for 15..16. *)
(***************************************************************************)
TransacoesInvertido ==
    {Transacao("lancamento", 1000, c, d, NULL) :
        c \in 1..MaxCategorias, d \in {UltimoInstante(15), Meianoite(16)}}

PeriodosInvertidos == {<<16, 15>>, <<31, 1>>}

PeriodosDeConsulta == PeriodosInvertidos \cup {<<15, 16>>}

NextInvertido ==
    \/ \E n \in UmNome, s \in Senhas, a \in Agoras : criar_novo_usuario(n, s, a)
    \/ \E n \in UmNome, s \in Senhas : login_para_obter_token(n, s)
    \/ \E t \in tokens, c \in {Salario, Aluguel} : criar_nova_categoria(t, c)
    \/ \E t \in tokens, p \in TransacoesInvertido, r \in PeriodosInvertidos :
          criar_nova_transacao(t, p, r[1], r[2])
    \/ \E t \in tokens, r \in PeriodosDeConsulta : ler_dados_dashboard(t, r[1], r[2])
    \/ \E t \in tokens, r \in PeriodosDeConsulta, f \in Filtros :
          ler_dados_de_tendencia(t, r[1], r[2], f)

SpecInvertido == Init /\ [][NextInvertido]_vars

(***************************************************************************)
(* C22.  A summary or a trend series asked for a range with data_inicio     *)
(* after data_fim is answered 200 with the empty result, whatever the store *)
(* holds: both totals and lucro_liquido are 0, both breakdown lists are     *)
(* empty, both trend lists are empty.                                       *)
(***************************************************************************)
C22_PeriodoInvertidoVazio ==
    (/\ resp.op \in OpsComDashboard \cup {"ler_dados_de_tendencia"}
     /\ resp.usuario # 0
     /\ "data_inicio" \in DOMAIN resp.req
     /\ resp.req.data_inicio > resp.req.data_fim) =>
        /\ resp.status = 200
        /\ resp.op \in OpsComDashboard =>
              /\ resp.body.total_receitas = 0
              /\ resp.body.total_gastos = 0
              /\ resp.body.lucro_liquido = 0
              /\ resp.body.gastos_por_categoria = <<>>
              /\ resp.body.receitas_por_categoria = <<>>
        /\ resp.op = "ler_dados_de_tendencia" =>
              /\ resp.body.receitas = <<>>
              /\ resp.body.despesas = <<>>

\* The series for 16..15 is empty while the account has a transaction of
\* each type at 00:00 of the day 16.
C22_Witness ==
    /\ resp.op = "ler_dados_de_tendencia"
    /\ resp.status = 200
    /\ resp.req.data_inicio = 16 /\ resp.req.data_fim = 15
    /\ resp.body.receitas = <<>> /\ resp.body.despesas = <<>>
    /\ \E x, y \in transacoes, c, d \in categorias :
          /\ x.usuario_id = resp.usuario /\ y.usuario_id = resp.usuario
          /\ x.categoria_id = c.id /\ c.tipo = "Receita"
          /\ y.categoria_id = d.id /\ d.tipo = "Gasto"
          /\ x.data = Meianoite(16) /\ y.data = Meianoite(16)

(***************************************************************************)
(* SpecUnicidade: names that collide.  Two accounts register (the query for *)
(* the name and the commit are two steps), rename themselves to each        *)
(* other's name and take the same email; two categories are created and one *)
(* is renamed to the other's name.                                          *)
(***************************************************************************)
DetalhesQueColidem ==
    { [nome_usuario |-> "ana"], [nome_usuario |-> "bob"], [email |-> "ana@nomad.dev"] }

NomesDeCategoria == { [nome |-> "Salario"] }

NextUnicidade ==
    \/ \E i \in Pedidos, n \in Nomes, s \in Senhas : criar_novo_usuario_consulta(i, n, s)
    \/ \E p \in pendentes, a \in Agoras : criar_novo_usuario_commit(p, a)
    \/ \E n \in Nomes, s \in Senhas : login_para_obter_token(n, s)
    \/ \E t \in tokens, d \in DetalhesQueColidem : atualizar_perfil_do_usuario(t, d)
    \/ \E t \in tokens, c \in {Salario, Aluguel} : criar_nova_categoria(t, c)
    \/ \E t \in tokens, i \in IdsDeCategoria, c \in NomesDeCategoria :
          editar_categoria(t, i, c)

SpecUnicidade == Init /\ [][NextUnicidade]_vars

(***************************************************************************)
(* C23.  In every state no two users have the same nome_usuario, no two     *)
(* users have the same email unless it is null, and no two categories have  *)
(* the same nome.                                                           *)
(***************************************************************************)
C23_Unicidade ==
    /\ \A u, v \in usuarios :
          u # v => /\ u.nome_usuario # v.nome_usuario
                   /\ u.email # NULL => u.email # v.email
    /\ \A c, e \in categorias : c # e => c.nome # e.nome

\* An account asked for the email that the other account has and was
\* refused.
C23_Witness ==
    /\ resp.op = "atualizar_perfil_do_usuario"
    /\ resp.status = 400
    /\ "email" \in DOMAIN resp.req
    /\ \E u, v \in usuarios :
          /\ u.id = resp.usuario
          /\ v.id # u.id
          /\ v.email = resp.req.email
          /\ u.email = NULL

(***************************************************************************)
(* C24.  In every state every stored transaction has the id of a stored     *)
(* category as its categoria_id and the id of a stored user as its          *)
(* usuario_id.                                                              *)
(***************************************************************************)
C24_ReferenciasExistem ==
    \A t \in transacoes :
        /\ \E c \in categorias : c.id = t.categoria_id
        /\ \E u \in usuarios : u.id = t.usuario_id

(***************************************************************************)
(* SpecTipo: the type of a category.  One account; categories are created   *)
(* with the type Receita and with the type Despesa (the word the docstring  *)
(* of CategoriaCreate uses), and their type is changed; transactions are    *)
(* created in them and the summary is read.                                 *)
(***************************************************************************)
Viagem == [nome |-> "Viagem", tipo |-> "Despesa", cor |-> "#0000FF"]

TiposEnviados == { [tipo |-> "Gasto"], [tipo |-> "Investimento"] }

TransacoesTipo ==
    {Transacao("lancamento", 1000, c, DateTime(15, 36900, 0), NULL) : c \in 1..MaxCategorias}

NextTipo ==
    \/ \E n \in UmNome, s \in Senhas, a \in Agoras : criar_novo_usuario(n, s, a)
    \/ \E n \in UmNome, s \in Senhas : login_para_obter_token(n, s)
    \/ \E t \in tokens, c \in {Salario, Viagem} : criar_nova_categoria(t, c)
    \/ \E t \in tokens, i \in IdsDeCategoria, c \in TiposEnviados : editar_categoria(t, i, c)
    \/ \E t \in tokens, p \in TransacoesTipo : criar_nova_transacao(t, p, 1, 31)
    \/ \E t \in tokens : ler_dados_dashboard(t, 1, 31)

SpecTipo == Init /\ [][NextTipo]_vars

(***************************************************************************)
(* C25.  In every state the tipo of every stored category is "Receita" or   *)
(* "Gasto", and so every transaction in a stored category is among the rows *)
(* of exactly one of the two totals of its owner's summary for a range that *)
(* holds its day.                                                           *)
(***************************************************************************)
C25_TipoReceitaOuGasto ==
    /\ \A c \in categorias : c.tipo \in {"Receita", "Gasto"}
    /\ \A t \in transacoes :
          (\E c \in categorias : c.id = t.categoria_id) =>
             Cardinality({tipo \in {"Receita", "Gasto"} :
                            \E p \in LinhasDoTipo(t.usuario_id, tipo, t.data.dia, t.data.dia) :
                                p[1] = t}) = 1

(***************************************************************************)
(* SpecSessao: the sessions of up to MaxPedidos requests and tasks in       *)
(* flight.  Each is served by a thread of its own, in which a handler or a  *)
(* task that has started ends and a finally block that was reached is run:  *)
(* weak fairness, request by request, on the steps that end and close.      *)
(***************************************************************************)
SaidasDoHandler == {"return", "HTTPException", "Exception"}

SaidasDaTask == {"return", "except"}

NextSessao ==
    \/ \E p \in Pedidos : get_db_abre(p)
    \/ \E s \in sessoes, saida \in SaidasDoHandler : handler_termina(s, saida)
    \/ \E s \in sessoes : get_db_fecha(s)
    \/ \E p \in Pedidos : task_recalculate_dashboard_abre(p)
    \/ \E s \in sessoes, saida \in SaidasDaTask : task_recalculate_dashboard_calcula(s, saida)
    \/ \E s \in sessoes : task_recalculate_dashboard_fecha(s)
    \/ \E s \in sessoes : sessao_coletada(s)

\* The steps that the thread serving pedido takes on its own.
Avanca(pedido) ==
    \E s \in sessoes :
        /\ s.pedido = pedido
        /\ \/ \E saida \in SaidasDoHandler : handler_termina(s, saida)
           \/ get_db_fecha(s)
           \/ \E saida \in SaidasDaTask : task_recalculate_dashboard_calcula(s, saida)
           \/ task_recalculate_dashboard_fecha(s)

SpecSessao ==
    /\ Init
    /\ [][NextSessao]_vars
    /\ \A p \in Pedidos : WF_vars(Avanca(p))

\* The session of pedido is open: acquired and close() not yet called.
SessaoAberta(pedido) ==
    \E s \in sessoes : s.pedido = pedido /\ s.fechamentos = 0

\* The session of pedido has been closed, once.
SessaoFechada(pedido) ==
    \E s \in sessoes : s.pedido = pedido /\ s.estado = "fechada" /\ s.fechamentos = 1

(***************************************************************************)
(* C26.  Every session acquired for a request by get_db, and the one the    *)
(* dashboard task acquires, is eventually closed, whether the code that     *)
(* used it returned, raised an HTTPException or failed with an exception;   *)
(* close() is called on it exactly once, and only the code still running or *)
(* about to run its finally block has an open session.                      *)
(***************************************************************************)
C26_SessaoFechadaUmaVez ==
    /\ \A p \in Pedidos : SessaoAberta(p) ~> SessaoFechada(p)
    /\ [](\A s \in sessoes :
             /\ s.fechamentos <= 1
             /\ s.fechamentos = 0 <=> s.estado \in {"yield", "try", "finally"})

\* The session of a request whose handler failed with an unhandled
\* exception has been closed, once.
C26_Witness ==
    \E s \in sessoes :
        /\ s.origem = "get_db"
        /\ s.saida = "Exception"
        /\ s.estado = "fechada"
        /\ s.fechamentos = 1

(***************************************************************************)
(* SpecConcorrente: one account, one category, one transaction and update   *)
(* requests of the owner that overlap: each loads the row, and the commits  *)
(* come in any order.                                                        *)
(***************************************************************************)
SoADescricao == [CorpoInteiro EXCEPT !.descricao = "padaria"]

SoOValor == [CorpoInteiro EXCEPT !.valor = 700000]

CorposConcorrentes == {SoADescricao, SoOValor, CorpoNovo}

NextConcorrente ==
    \/ \E n \in UmNome, s \in Senhas, a \in Agoras : criar_novo_usuario(n, s, a)
    \/ \E n \in UmNome, s \in Senhas : login_para_obter_token(n, s)
    \/ \E t \in tokens : criar_nova_categoria(t, Salario)
    \/ \E t \in tokens :
          /\ transacoes = {}
          /\ criar_nova_transacao(t, CorpoInteiro, 1, 31)
    \/ \E i \in Pedidos, t \in tokens, id \in IdsDeTransacao, c \in CorposConcorrentes :
          editar_transacao_consulta(i, t, id, c, 1, 31)
    \/ \E p \in pendentes : editar_transacao_commit(p)

SpecConcorrente == Init /\ [][NextConcorrente]_vars

\* An update request of the owner has just committed.
CommitDeEdicao ==
    /\ pendentes' # pendentes
    /\ pendentes' \subseteq pendentes
    /\ resp'.op = "editar_transacao"
    /\ resp'.status = 200

\* C27: when two updates of the owner to one transaction overlap, each
\* loading the row before either commits, the row stored after a commit
\* equals in all five fields the payload of the update that has just
\* committed, never a mixture of the fields of the two payloads.
C27_UltimoVenceNoPasso ==
    CommitDeEdicao =>
        \E t \in transacoes' :
            /\ t.id = resp'.req.transacao_id
            /\ \A k \in CamposDeTransacao : t[k] = resp'.req.transacao[k]

C27_UltimoVence == [][C27_UltimoVenceNoPasso]_vars

\* The overlap itself: two update requests of one transaction have loaded the
\* row and neither has committed.
C27_DoisEmVoo ==
    \E p, q \in pendentes :
        /\ p.pedido # q.pedido
        /\ p.req.transacao_id = q.req.transacao_id
        /\ p.req.transacao # q.req.transacao

(***************************************************************************)
(* C28.  A token that login issued to an account resolves, for as long as   *)
(* it is accepted, to that account and to no other, whatever profile        *)
(* updates (changes of nome_usuario included) and registrations come after  *)
(* the login; and a request that a token authenticated was served as the    *)
(* account that obtained the token.                                         *)
(***************************************************************************)
C28_TokenDoDono ==
    /\ \A t \in tokens : get_usuario_atual(t).id \in {0, t.dono}
    /\ ("token" \in DOMAIN resp /\ resp.status # 401) =>
           (resp.token \in tokens => resp.usuario = resp.token.dono)

\* The case of the claim without the reuse of a name: an account renamed
\* itself and the token it obtained before resolves to nobody.
C28_NomeTrocado ==
    \E t \in tokens :
        /\ \E u \in usuarios : u.id = t.dono /\ u.nome_usuario # t.sub
        /\ get_usuario_atual(t).id = 0

(***************************************************************************)
(* SpecAlheio: two accounts; each creates, updates and deletes transactions, *)
(* updates its profile, changes its password, and creates, updates and       *)
(* deletes categories, and each reads its dashboard.                         *)
(***************************************************************************)
OutroTipo == [tipo |-> "Gasto"]

EdicoesDeCategoria == {OutraCor, OutroTipo}

NextAlheio ==
    \/ \E n \in Nomes, s \in Senhas, a \in Agoras : criar_novo_usuario(n, s, a)
    \/ \E n \in Nomes, s \in Senhas : login_para_obter_token(n, s)
    \/ \E t \in tokens : atualizar_perfil_do_usuario(t, NomeCompleto)
    \/ \E t \in tokens : mudar_senha(t, TrocaDeSenha)
    \/ \E t \in tokens : criar_nova_categoria(t, Salario)
    \/ \E t \in tokens, c \in EdicoesDeCategoria : editar_categoria(t, 1, c)
    \/ \E t \in tokens : deletar_categoria_endpoint(t, 1)
    \/ \E t \in tokens : criar_nova_transacao(t, CorpoInteiro, 1, 31)
    \/ \E t \in tokens : editar_transacao(t, 1, CorpoNovo, 1, 31)
    \/ \E t \in tokens : deletar_transacao_e_recalcular(t, 1, 1, 31)
    \/ \E t \in tokens : ler_dados_dashboard(t, 1, 31)

SpecAlheio == Init /\ [][NextAlheio]_vars

\* What account a reads of its own data in the range 1..31.
VistaDoUsuario(a) ==
    [dashboard |-> get_dashboard_data(a, 1, 31),
     tendencia |-> [f \in Filtros |-> get_dados_de_tendencia(a, 1, 31, f)],
     transacoes |-> listar_transacoes(a, 0, LimitPadrao),
     periodo |-> listar_transacoes_por_periodo(a, 1, 31)]

\* C29: an operation performed with the token of one account (transaction
\* create/update/delete, profile update, password change, category
\* create/update/delete) leaves the dashboard summary, the trend series and
\* the transaction lists of every other account as they were.
C29_NaoInterfereNoPasso ==
    ("token" \in DOMAIN resp' /\ resp'.usuario # 0 /\ resp'.op \in OpsQueEscrevem) =>
        \A a \in 1..MaxUsuarios :
            a # resp'.usuario => VistaDoUsuario(a)' = VistaDoUsuario(a)

C29_NaoInterferencia == [][C29_NaoInterfereNoPasso]_vars

\* The same for the operations on transactions, profile and password alone.
C29_SemCategoriasNoPasso ==
    ("token" \in DOMAIN resp' /\ resp'.usuario # 0
        /\ resp'.op \in {"criar_nova_transacao", "editar_transacao",
                         "deletar_transacao_e_recalcular",
                         "atualizar_perfil_do_usuario", "mudar_senha"}) =>
        \A a \in 1..MaxUsuarios :
            a # resp'.usuario => VistaDoUsuario(a)' = VistaDoUsuario(a)

C29_SemCategorias == [][C29_SemCategoriasNoPasso]_vars

(***************************************************************************)
(* SpecAcordo: one account, the two categories, transactions on two days    *)
(* with an amount of two decimals or of three, and the summary and the two  *)
(* trend series read over the same range.                                   *)
(***************************************************************************)
TransacoesAcordo ==
    {Transacao("lancamento", v, c, d, NULL) :
        v \in {4, 500000}, c \in 1..MaxCategorias,
        d \in {DateTime(15, 36900, 0), DateTime(16, 0, 0)}}

NextAcordo ==
    \/ \E n \in UmNome, s \in Senhas, a \in Agoras : criar_novo_usuario(n, s, a)
    \/ \E n \in UmNome, s \in Senhas : login_para_obter_token(n, s)
    \/ \E t \in tokens, c \in {Salario, Aluguel} : criar_nova_categoria(t, c)
    \/ \E t \in tokens, p \in TransacoesAcordo : criar_nova_transacao(t, p, 1, 31)
    \/ \E t \in tokens : ler_dados_dashboard(t, 1, 31)
    \/ \E t \in tokens, f \in Filtros : ler_dados_de_tendencia(t, 1, 31, f)

SpecAcordo == Init /\ [][NextAcordo]_vars

\* C30: for the same account, the same range and the same store state, and
\* for either granularity, the valor of the points of the series receitas
\* adds up to the summary's total_receitas and the valor of the points of
\* the series despesas adds up to total_gastos.
C30_ResumoETendencia ==
    \A u \in 1..MaxUsuarios, f \in Filtros, tipo \in {"Receita", "Gasto"} :
        \A resumo \in get_dashboard_data(u, 1, 31) :
            SomaDosPontos(SerieDoTipo(get_dados_de_tendencia(u, 1, 31, f), tipo))
                = TotalDoTipoNoResumo(resumo, tipo)

\* The two answers themselves: a trend that was answered right after a
\* summary, over a store with transactions in the range.
C30_DuasRespostas ==
    /\ resp.op = "ler_dados_de_tendencia"
    /\ resp.status = 200
    /\ \E t \in transacoes : t.usuario_id = resp.usuario /\ NoPeriodo(t, 1, 31)
    /\ \E tipo \in {"Receita", "Gasto"} : Len(SerieDoTipo(resp.body, tipo)) = 2

=============================================================================
